---- MODULE Spec2Model ----
(***************************************************************************)
(* Model of the SCPI/MQTT instrument daemon: the polling thread            *)
(* (measurement_loop), the bus callback (handle_mqtt), the module-wide     *)
(* scheduling variables and the instrument drivers with their locks.       *)
(*                                                                         *)
(* Two threads run: "loop" (the polling thread started by main) and "mqtt" *)
(* (the network thread of the bus client, which runs handle_mqtt for one   *)
(* message at a time).  Time is an integer clock in seconds.               *)
(***************************************************************************)
EXTENDS Integers, Sequences, FiniteSets, TLC

VARIABLES
    now,              \* wall clock, time.time()
    stop_event,       \* daemon.py: stop_event.is_set()
    interval,         \* daemon.py globals
    changed_interval,
    change_time,
    next_time,
    pc,               \* position of the polling thread
    idx,              \* index of the instrument being polled (for-loop)
    pk,               \* wire transactions done in the polling thread's operation
    published,        \* instruments whose payload was forwarded in this cycle
    poll_error,       \* instrument whose read()/get_set_values() raised in the loop
    calls,            \* history: the driver methods the loop called in this cycle
    forwarded,        \* history: the payloads forwarded in this cycle, in order
    hpc,              \* position of the bus thread in handle_mqtt
    hcall,            \* the driver call in progress in handle_mqtt
    hk,               \* wire transactions done in that call
    hres,             \* how handle_mqtt is ending ("ret" position)
    hinv,             \* driver method handle_mqtt invoked for this message
    harmed,           \* handle_mqtt ran its time_lock block for this message
    hsent,            \* wire transactions completed by the driver call in progress
    lock,             \* mutex_lock holder of each instrument
    wire,             \* the wire conversation open on each instrument
    dev,              \* device state (source function) of each instrument
    drv,              \* driver state (self.source_limit) of each instrument
    prev_deadline,    \* history: next_time before its latest assignment
    last_writer,      \* history: who assigned next_time last
    last_step,        \* history: interval added by the latest "next_time += interval"
    adv_time,         \* history: time.time() at the latest "next_time += interval"
                      \*          (0 while a cycle is running)
    instruments,      \* measurement_loop: the instruments of the config file, in
                      \*   config order (the dict is filled when spc = "loaded")
    item,             \* load_instruments: the descriptor being loaded, the resources
                      \*   the resource manager lists and the command-line switches
    spc,              \* position of the polling thread in load_instruments
    found,            \* index of the resource find_matching_resource returned (0: none)
    opened,           \* indices of the resources find_matching_resource opened
    extra_reads,      \* find_matching_resource: inst.read() calls issued on each
                      \*   resource it queried
    start_error,      \* the exception that ended load_instruments
    startsent,        \* wire transactions of the constructor, reset() and configure()
                      \*   during load_instruments
    main_pc,          \* position of main: "wait" in stop_event.wait(), "exited"
    lookup,           \* find_SCPI: the call (config, name, SCPI_dict, default)
    looked_up         \* find_SCPI: what the call returned

sched == <<interval, changed_interval, change_time, next_time>>
schedhist == <<prev_deadline, last_writer, last_step, adv_time>>
pollvars == <<pc, idx, pk, published, poll_error, calls, forwarded>>
handlervars == <<hpc, hcall, hk, hres, hinv, harmed, hsent>>
loadvars == <<instruments, item, spc, found, opened, extra_reads, start_error,
              startsent, main_pc, lookup, looked_up>>
instvars == <<loadvars, lock, wire, dev, drv>>
vars == <<now, stop_event, sched, schedhist, pollvars, handlervars, instvars>>

----------------------------------------------------------------------------
\* Bounds of the model
MaxTime == 34        \* horizon of the clock in SpecSched
MaxArrive == 2       \* latest arrival time of a control message in SpecSched

\* Program constants
native_interval == 10    \* args.interval (--interval default)
OverrideInterval == 1    \* interval = 1 in handle_mqtt
OverrideWindow == 30     \* time.time() - change_time > 30
NoLimit == -1            \* self.source_limit = None
NotANumber == -999       \* a non-numeric value formatted into a command

Abs(x) == IF x < 0 THEN -x ELSE x

----------------------------------------------------------------------------
\* The names of the loaded instruments (the keys of the instruments dict)
InstrumentNames == {instruments[n] : n \in 1..Len(instruments)}
InstrumentType(i) ==
    IF i = "smu1" THEN "Keithley2470"
    ELSE IF i = "hv1" THEN "ISEGSHR"
    ELSE "TTiPL303QMDP"

\* tti_PL303QMDP.py channel_map
channel_map(ch) == IF ch = "CH1" THEN "1" ELSE IF ch = "CH2" THEN "2" ELSE "?"
InChannelMap(ch) == ch \in {"CH1", "CH2"}
\* iseg_SHR.py channel_map
iseg_channel_map(ch) ==
    IF ch = "CH0" THEN "0" ELSE IF ch = "CH1" THEN "1"
    ELSE IF ch = "CH2" THEN "2" ELSE IF ch = "CH3" THEN "3" ELSE "?"
InISEGChannelMap(ch) == ch \in {"CH0", "CH1", "CH2", "CH3"}
\* "channel not in channel_map" of the driver of instrument i
UnknownChannel(i, ch) ==
    IF InstrumentType(i) = "ISEGSHR" THEN ~InISEGChannelMap(ch) ELSE ~InChannelMap(ch)

\* Instrument configs: the 'config' entry of a descriptor or of an override
\* payload.  code 0 is the instrument's own config, 2 and up are overrides.
\*   source, source_limit, nplc, current_range ("num": a number, "auto"),
\*   ovp ("absent", "valid": a known level, "invalid": another string,
\*   "nonstr": not a string), channels (the keys of 'channels'; no channel
\*   has a 'damping' entry), trips (the channels have over_voltage_trip and
\*   over_current_trip)
CfgVolt ==
    [source |-> "voltage", source_limit |-> 10, channels |-> <<"CH1", "CH2">>,
     nplc |-> 2, current_range |-> "num", ovp |-> "absent", trips |-> FALSE]
CfgCurr ==
    [source |-> "current", source_limit |-> NoLimit, channels |-> <<>>,
     nplc |-> 2, current_range |-> "num", ovp |-> "valid", trips |-> FALSE]
Config(i, code) ==
    CASE code = 3 -> CfgCurr
      [] code = 4 -> [CfgVolt EXCEPT !.nplc = 20]
      [] code = 5 -> [CfgVolt EXCEPT !.nplc = 5, !.ovp = "invalid", !.trips = TRUE]
      [] code = 6 -> [CfgVolt EXCEPT !.current_range = "auto"]
      [] code = 7 -> [CfgCurr EXCEPT !.ovp = "nonstr", !.source_limit = -7]
      [] code = 8 -> [CfgCurr EXCEPT !.source_limit = -7, !.channels = <<"CH2">>]
      [] OTHER -> CfgVolt

----------------------------------------------------------------------------
\* JSON payloads as Python values: [t |-> type, v |-> integer code].
\*   int, float: v is the number; bool: 0/1; null: 0; str, list: v is the length;
\*   obj: 0 = {}, 1 = an object without 'config', 2 and up = {'config': Config(_, v)}
JsonValues ==
    {[t |-> "int", v |-> n] : n \in {0, 1}} \cup
    {[t |-> "float", v |-> n] : n \in {0, 5}} \cup
    {[t |-> "bool", v |-> n] : n \in {0, 1}} \cup
    {[t |-> "null", v |-> 0]} \cup
    {[t |-> "str", v |-> n] : n \in {0, 1}} \cup
    {[t |-> "list", v |-> n] : n \in {0, 1}} \cup
    {[t |-> "obj", v |-> n] : n \in {0, 1, 2, 3}}
BadJson == [t |-> "badjson", v |-> 0]      \* text json.loads rejects
BadUtf8 == [t |-> "badutf8", v |-> 0]      \* bytes decode("utf-8") rejects
Null == [t |-> "null", v |-> 0]

\* bool(value)
PyTruthy(p) == p.t \in {"int", "float", "bool", "str", "list", "obj"} /\ p.v # 0
\* value != 0
PyNeZeroTruthy(p) == PyTruthy(p)
PyNeZero(p) == IF p.t \in {"int", "float", "bool"} THEN p.v # 0 ELSE TRUE
\* isinstance(value, int)   (bool is a subclass of int)
PyIsIntNotBool(p) == p.t = "int"
PyIsInt(p) == p.t \in {"int", "bool"}
\* abs(value) is defined
PyIsNumber(p) == p.t \in {"int", "float", "bool"}
\* json.loads(msg.payload.decode("utf-8")) returns
JsonParsesAlways(p) == p.t # "badutf8"
JsonParses(p) == p.t \notin {"badjson", "badutf8"}

----------------------------------------------------------------------------
\* Wire commands and the conversations of the driver operations.
\* A conversation is the sequence of wire transactions (write or query) the
\* operation issues inside "with self.mutex_lock"; the element RaiseHere stands
\* for an exception raised at that point of the critical section.
Cmd(c) == [cmd |-> c, ch |-> "", arg |-> 0, resp |-> ""]
CmdCh(c, ch, a) == [cmd |-> c, ch |-> ch, arg |-> a, resp |-> ""]
\* a query and the response the device gave
Query(c, r) == [cmd |-> c, ch |-> "", arg |-> 0, resp |-> r]
RaiseHere == Cmd("!raise")

NoCall == [op |-> "none", inst |-> "none", chan |-> "", p |-> Null]
Call(op, i, chan, p) == [op |-> op, inst |-> i, chan |-> chan, p |-> p]

\* The number a set_voltage/set_current payload stands for
NumVal(p) == IF PyIsNumber(p) THEN p.v ELSE NotANumber

\* keithley_2470.py: the source_limit clamp of set_voltage / set_current
ClampNoSign(v, limit) ==
    IF limit # NoLimit /\ Abs(v) > limit THEN limit ELSE v
Clamp(v, limit) ==
    IF limit # NoLimit /\ Abs(v) > limit
    THEN (IF v > 0 THEN limit ELSE -limit)
    ELSE v

\* keithley_2470.py: source_limit read from a config
NormLimit(cfg) ==
    IF cfg.source_limit = NoLimit THEN NoLimit ELSE Abs(cfg.source_limit)

\* keithley_2470.py configure: nplc outside [0.01, 10] is written as 1
NplcKeep(n) == n
NplcWritten(n) == IF n < 1 \/ n > 10 THEN 1 ELSE n
\* keithley_2470.py configure: the protection level written (0: NONE, 1: the
\* level asked for)
OvpWritten(o) == IF o = "valid" THEN 1 ELSE 0

\* keithley_2470.py configure: the writes of the critical section.  The
\* measurement ranges are computed right after the three reset writes, and
\* "AUTO" * 1e-6 raises; overvoltage.upper() raises for a non-string.
K2470Settings(cfg) ==
    (IF cfg.current_range = "auto" THEN <<RaiseHere>>
     ELSE
       (IF cfg.source = "voltage"
        THEN <<Cmd("SENS:FUNC CURR"), Cmd("SENS:CURR:RANG:AUTO OFF"), Cmd("SENS:CURR:RANG"),
               Cmd("SOUR:FUNC VOLT"), Cmd("SOUR:VOLT:RANG:AUTO OFF"), Cmd("SOUR:VOLT:RANG"),
               Cmd("SOUR:VOLT:READ:BACK ON"), Cmd("SOUR:VOLT:HIGH:CAP ON")>>
        ELSE <<Cmd("SENS:FUNC VOLT"), Cmd("SENS:VOLT:RANG:AUTO OFF"), Cmd("SENS:VOLT:RANG"),
               Cmd("SOUR:FUNC CURR"), Cmd("SOUR:CURR:RANG:AUTO OFF"), Cmd("SOUR:CURR:RANG"),
               Cmd("SOUR:CURR:READ:BACK ON"), Cmd("SOUR:CURR:HIGH:CAP ON")>>) \o
       (IF cfg.ovp = "nonstr" THEN <<RaiseHere>>
        ELSE <<CmdCh("SOUR:VOLT:PROT", "", OvpWritten(cfg.ovp)), Cmd("OUTP:SMOD"),
               Cmd("ROUT:TERM"), Cmd("SENS:CURR:RSEN"), Cmd("SENS:VOLT:RSEN"),
               Cmd("SENS:AVER OFF"), Cmd("SENS:CURR:AZER ON"), Cmd("SENS:VOLT:AZER ON"),
               CmdCh("SENS:NPLC", "", NplcWritten(cfg.nplc)),
               Cmd("FORM:ASC:PREC"), Cmd("SOUR:CURR:VLIM"), Cmd("SOUR:VOLT:ILIM")>>))
K2470ConfigureNoReset(cfg) ==
    <<CmdCh("OUTP", "", 0), Cmd("*CLS"), Cmd("SYST:CLE")>> \o K2470Settings(cfg)
K2470Configure(cfg) ==
    <<CmdCh("OUTP", "", 0), Cmd("*RST"), Cmd("SYST:CLE")>> \o K2470Settings(cfg)

\* keithley_2470.py set_voltage / set_current: the clamp, the SOUR:FUNC? query
\* and, if the response names the function fn, the write.  seen is the
\* response: the one already received, or the device's function now.
K2470SetSourceNoCheck(c, fn, wr) ==
    <<Query("SOUR:FUNC?", dev[c.inst].func),
      CmdCh(wr, "", Clamp(NumVal(c.p), drv[c.inst].source_limit))>>
K2470SetSource(c, fn, wr) ==
    LET seen == IF hsent # <<>> THEN hsent[1].resp ELSE dev[c.inst].func
    IN  IF drv[c.inst].source_limit # NoLimit /\ ~PyIsNumber(c.p)
        THEN <<RaiseHere>>      \* abs(value) raises TypeError inside the lock
        ELSE <<Query("SOUR:FUNC?", seen)>> \o
             (IF seen = fn
              THEN <<CmdCh(wr, "", Clamp(NumVal(c.p), drv[c.inst].source_limit))>>
              ELSE <<>>)

K2470Script(c) ==
    CASE c.op = "reset" -> <<Cmd("*CLS"), Cmd("*RST")>>
      [] c.op = "read" -> <<Cmd("MEAS:VOLT?"), Cmd("MEAS:CURR?"), Cmd("OUTP?")>>
      [] c.op = "get_set_values" -> <<Cmd("SOUR:VOLT?"), Cmd("SOUR:CURR?")>>
      [] c.op = "configure" -> K2470Configure(Config(c.inst, c.p.v))
      [] c.op = "set_output" -> <<CmdCh("OUTP", "", IF PyTruthy(c.p) THEN 1 ELSE 0)>>
      [] c.op = "set_voltage" -> K2470SetSource(c, "VOLT", "SOUR:VOLT")
      [] c.op = "set_current" -> K2470SetSource(c, "CURR", "SOUR:CURR")
      [] OTHER -> <<>>

\* tti_PL303QMDP.py configure: after the four reset writes the first channel's
\* IRANGE and, if configured, trips are written; then
\* float(channel_config.get("damping", "OFF")) raises (and a number given as
\* damping has no upper()), so DAMPING, V and I are never written.
TTiConfigure(cfg) ==
    <<CmdCh("OPALL", "", 0), Cmd("*RST"), Cmd("*CLS"), Cmd("TRIPRST")>> \o
    (IF Len(cfg.channels) = 0 THEN <<>>
     ELSE <<CmdCh("IRANGE", channel_map(cfg.channels[1]), 2)>> \o
          (IF cfg.trips
           THEN <<CmdCh("OVP", channel_map(cfg.channels[1]), 0),
                  CmdCh("OCP", channel_map(cfg.channels[1]), 0)>>
           ELSE <<>>) \o
          <<RaiseHere>>)

TTiScript(c) ==
    CASE c.op = "reset" -> <<Cmd("*CLS"), Cmd("*RST"), Cmd("TRIPRST")>>
      [] c.op = "read" ->
            <<CmdCh("VO?", "1", 0), CmdCh("IO?", "1", 0), CmdCh("OP?", "1", 0),
              CmdCh("VO?", "2", 0), CmdCh("IO?", "2", 0), CmdCh("OP?", "2", 0)>>
      [] c.op = "get_set_values" ->
            <<CmdCh("V?", "1", 0), CmdCh("I?", "1", 0),
              CmdCh("V?", "2", 0), CmdCh("I?", "2", 0)>>
      [] c.op = "configure" -> TTiConfigure(Config(c.inst, c.p.v))
      [] c.op = "set_output" ->
            IF c.chan = ""
            THEN <<CmdCh("OPALL", "", IF PyTruthy(c.p) THEN 1 ELSE 0)>>
            ELSE <<CmdCh("OP", channel_map(c.chan), IF PyTruthy(c.p) THEN 1 ELSE 0)>>
      [] c.op = "set_voltage" -> <<CmdCh("V", channel_map(c.chan), NumVal(c.p))>>
      [] c.op = "set_current" -> <<CmdCh("I", channel_map(c.chan), NumVal(c.p))>>
      [] OTHER -> <<>>

\* iseg_SHR.py: every command is sent with query() and its echo fetched with
\* read()
QR(c, ch, a) == <<CmdCh(c, ch, a), Cmd("read")>>
\* iseg_SHR.py configure: the settings of one channel
ISEGChannelRangeFirst(ch) ==
    QR(":CONF:RANGE:CURR", ch, 0) \o
    QR(":CONF:TRIP:TIME", ch, 100) \o QR(":CONF:TRIP:ACTION", ch, 4) \o
    QR(":CONF:INH:ACTION", ch, 4) \o
    QR(":CONF:OUTPUT:MODE", ch, 1) \o QR(":CONF:OUTPUT:POL", ch, 0) \o
    QR(":CONF:RAMP:VOLT:UP", ch, 250) \o QR(":CONF:RAMP:VOLT:DOWN", ch, 500) \o
    QR(":CONF:RAMP:CURR:UP", ch, 2) \o QR(":CONF:RAMP:CURR:DOWN", ch, 4) \o
    QR(":VOLT", ch, 0) \o QR(":CURR", ch, 0)
ISEGChannel(ch) ==
    QR(":CONF:TRIP:TIME", ch, 100) \o QR(":CONF:TRIP:ACTION", ch, 4) \o
    QR(":CONF:INH:ACTION", ch, 4) \o
    QR(":CONF:OUTPUT:MODE", ch, 1) \o QR(":CONF:OUTPUT:POL", ch, 0) \o
    QR(":CONF:RAMP:VOLT:UP", ch, 250) \o QR(":CONF:RAMP:VOLT:DOWN", ch, 500) \o
    QR(":CONF:RAMP:CURR:UP", ch, 2) \o QR(":CONF:RAMP:CURR:DOWN", ch, 4) \o
    QR(":CONF:RANGE:CURR", ch, 0) \o
    QR(":VOLT", ch, 0) \o QR(":CURR", ch, 0)
RECURSIVE ISEGChannels(_)
ISEGChannels(chs) ==
    IF chs = <<>> THEN <<>>
    ELSE ISEGChannel(iseg_channel_map(Head(chs))) \o ISEGChannels(Tail(chs))
ISEGConfigure(cfg) ==
    QR(":VOLT ON|OFF", "0-3", 0) \o QR("*RST", "", 0) \o QR("*CLS", "", 0) \o
    QR(":EVENT CLEAR", "0-3", 0) \o
    QR(":CONF:RAMP:VOLT", "", 25) \o QR(":CONF:RAMP:VOLT:EMCY", "", 200) \o
    QR(":CONF:RAMP:CURR", "", 30) \o
    QR(":CONF:AVER", "", 64) \o QR(":CONF:KILL", "", 0) \o QR(":CONF:ADJUST", "", 1) \o
    ISEGChannels(cfg.channels)

RECURSIVE ISEGPoll(_, _)
ISEGPoll(cmds, chs) ==
    IF chs = <<>> THEN <<>>
    ELSE LET one[n \in 0..Len(cmds)] ==
                 IF n = 0 THEN <<>> ELSE one[n - 1] \o QR(cmds[n], Head(chs), 0)
         IN  one[Len(cmds)] \o ISEGPoll(cmds, Tail(chs))

ISEGScript(c) ==
    CASE c.op = "reset" ->
            QR(":VOLT ON|OFF", "0-3", 0) \o QR("*CLS", "", 0) \o QR("*RST", "", 0) \o
            QR(":EVENT CLEAR", "0-3", 0)
      [] c.op = "read" ->
            ISEGPoll(<<":MEAS:VOLT?", ":MEAS:CURR?", ":READ:VOLT:ON?">>, <<"0", "1", "2", "3">>)
      [] c.op = "get_set_values" ->
            ISEGPoll(<<":READ:VOLT?", ":READ:CURR?">>, <<"0", "1", "2", "3">>)
      [] c.op = "configure" -> ISEGConfigure(Config(c.inst, c.p.v))
      [] c.op = "set_output" ->
            QR(":VOLT ON|OFF", IF c.chan = "" THEN "0-3" ELSE iseg_channel_map(c.chan),
               IF PyTruthy(c.p) THEN 1 ELSE 0)
      [] c.op = "set_voltage" -> QR(":VOLT", iseg_channel_map(c.chan), NumVal(c.p))
      [] c.op = "set_current" -> QR(":CURR", iseg_channel_map(c.chan), NumVal(c.p))
      [] OTHER -> <<>>

Script(c) ==
    CASE InstrumentType(c.inst) = "Keithley2470" -> K2470Script(c)
      [] InstrumentType(c.inst) = "ISEGSHR" -> ISEGScript(c)
      [] OTHER -> TTiScript(c)

\* The commands that ask and set nothing
QueryCmds ==
    {"MEAS:VOLT?", "MEAS:CURR?", "OUTP?", "SOUR:VOLT?", "SOUR:CURR?", "SOUR:FUNC?",
     "VO?", "IO?", "OP?", "V?", "I?", "read",
     ":MEAS:VOLT?", ":MEAS:CURR?", ":READ:VOLT:ON?", ":READ:VOLT?", ":READ:CURR?"}
\* The settings of a device after a command: *RST puts every setting back to
\* its default (no setting recorded), a write replaces the setting it names
SetAfter(st, c) ==
    IF c.cmd = "*RST" THEN <<>>
    ELSE IF c.cmd \in QueryCmds THEN st
    ELSE (<<c.cmd, c.ch>> :> c.arg) @@ st

\* What a transaction does to the device: the source function of the SMU and,
\* where the device record keeps them, its settings
DevAfter(i, d, c) ==
    LET d1 == IF InstrumentType(i) # "Keithley2470" THEN d
              ELSE IF c.cmd \in {"*RST", "SOUR:FUNC VOLT"} THEN [d EXCEPT !.func = "VOLT"]
              ELSE IF c.cmd = "SOUR:FUNC CURR" THEN [d EXCEPT !.func = "CURR"]
              ELSE d
    IN  IF "set" \in DOMAIN d1 THEN [d1 EXCEPT !.set = SetAfter(d1.set, c)] ELSE d1

\* What the operation does to the driver between transaction n and the next:
\* Keithley2470.configure stores self.source_limit after its third write.
DrvAfter(c, r, n) ==
    IF InstrumentType(c.inst) = "Keithley2470" /\ c.op = "configure" /\ n = 3
    THEN [r EXCEPT !.source_limit = NormLimit(Config(c.inst, c.p.v))]
    ELSE r

\* with self.mutex_lock: the lock can be taken
LockFreeAlways(i) == TRUE
LockFree(i) == lock[i] = "free"

NoWire == [by |-> "none", op |-> "none", k |-> 0, last |-> Cmd("")]

----------------------------------------------------------------------------
\* Control messages: [topic |-> sequence of the segments of msg.topic,
\*                    payload |-> the payload bytes as parsed (or not) by json]
Msg(topic, payload) == [topic |-> topic, payload |-> payload]

\* handle_mqtt: the topic is too short to name an instrument and a command
ShortTopic(m) == Len(m.topic) < 3
\* handle_mqtt: _, name, *rest = topic_parts
TopicName(m) == m.topic[2]
TopicRest(m) == SubSeq(m.topic, 3, Len(m.topic))
TopicChannelFirst(m) == TopicRest(m)[1]
TopicChannel(m) == IF Len(TopicRest(m)) = 2 THEN TopicRest(m)[1] ELSE ""
TopicCommand(m) == IF Len(TopicRest(m)) = 2 THEN TopicRest(m)[2] ELSE TopicRest(m)[1]
\* handle_mqtt: instruments.get(name) finds a driver
KnownInstrument(name) == name \in InstrumentNames

\* handle_mqtt: the message gets past the topic, instrument and payload checks
Accepted(m) ==
    /\ ~ShortTopic(m)
    /\ KnownInstrument(TopicName(m))
    /\ JsonParses(m.payload)

\* How handle_mqtt ends for a message it does not accept
DropReason(m) ==
    IF ShortTopic(m) THEN "bad_topic"
    ELSE IF ~KnownInstrument(TopicName(m)) THEN "unknown_instrument"
    ELSE IF m.payload.t = "badutf8" THEN "decode_error"
    ELSE "bad_json"

\* The driver raises before it takes its lock: a keyword the method does not
\* have (Keithley2470 takes no channel), a missing or unknown channel
\* (TTiPL303QMDP, ISEGSHR), or a configure payload without ['config'].
RaisesBeforeLockTypeOnly(i, op, chan, p) ==
    IF op \in {"set_voltage", "set_current"}
    THEN IF InstrumentType(i) = "Keithley2470" THEN chan # ""
         ELSE chan = "" \/ UnknownChannel(i, chan)
    ELSE IF op = "set_output"
    THEN IF InstrumentType(i) = "Keithley2470" THEN chan # ""
         ELSE chan # "" /\ UnknownChannel(i, chan)
    ELSE IF op = "configure"
    THEN ~(p.t \in {"null", "obj"})
    ELSE FALSE
RaisesBeforeLockAnyChannel(i, op, chan, p) ==
    IF op \in {"set_voltage", "set_current"}
    THEN IF InstrumentType(i) = "Keithley2470" THEN chan # "" ELSE chan = ""
    ELSE IF op = "set_output"
    THEN InstrumentType(i) = "Keithley2470" /\ chan # ""
    ELSE IF op = "configure"
    THEN ~(p.t = "null" \/ (p.t = "obj" /\ p.v >= 2))
    ELSE FALSE
RaisesBeforeLock(i, op, chan, p) ==
    IF op \in {"set_voltage", "set_current"}
    THEN IF InstrumentType(i) = "Keithley2470" THEN chan # ""
         ELSE chan = "" \/ UnknownChannel(i, chan)
    ELSE IF op = "set_output"
    THEN IF InstrumentType(i) = "Keithley2470" THEN chan # ""
         ELSE chan # "" /\ UnknownChannel(i, chan)
    ELSE IF op = "configure"
    THEN ~(p.t = "null" \/ (p.t = "obj" /\ p.v >= 2))
    ELSE FALSE

\* handle_mqtt "Route command": [kind, call]
\*   kind "call": a driver method is invoked with the call's arguments
\*   kind "noop": the command is known and no driver method is invoked
\*   kind "unknown": log.error("Unknown command")
RouteTo(kind, op, i, chan, p) == [kind |-> kind, call |-> Call(op, i, chan, p)]
\* handle_mqtt: the else branch of the routing
UnknownCommandAsReset(i) == RouteTo("call", "reset", i, "", Null)
UnknownCommandRoute(i) == RouteTo("unknown", "none", i, "", Null)
Route(m) ==
    LET i == TopicName(m)
        chan == TopicChannel(m)
        cmd == TopicCommand(m)
        p == m.payload
    IN  CASE cmd = "set_voltage" -> RouteTo("call", "set_voltage", i, chan, p)
          [] cmd = "set_current" -> RouteTo("call", "set_current", i, chan, p)
          [] cmd = "output" -> RouteTo("call", "set_output", i, chan, p)
          [] cmd = "configure" ->
                IF PyIsInt(p)
                THEN IF PyNeZero(p) THEN RouteTo("call", "configure", i, "", Null)
                     ELSE RouteTo("noop", "none", i, "", Null)
                ELSE RouteTo("call", "configure", i, "", p)
          [] cmd = "reset" ->
                IF PyNeZero(p) THEN RouteTo("call", "reset", i, "", p)
                ELSE RouteTo("noop", "none", i, "", Null)
          [] OTHER -> UnknownCommandRoute(i)

\* handle_mqtt "with time_lock": the armed schedule
ArmKeepDeadline(t) == <<OverrideInterval, TRUE, t, next_time>>
ArmKeepStart(t) == <<OverrideInterval, TRUE, IF changed_interval THEN change_time ELSE t, t>>
ArmNothing(t) == <<interval, changed_interval, change_time, next_time>>
ArmIntervalOnly(t) == <<OverrideInterval, changed_interval, t, t>>
Arm(t) == <<OverrideInterval, TRUE, t, t>>

\* measurement_loop "with time_lock": next_time += interval
AdvanceTwice == next_time + interval + interval
AdvanceFromNow == now + interval
AdvanceDeadline == next_time + interval
\* measurement_loop: changed_interval and time.time() - change_time > 30
RevertDueEarly == changed_interval /\ now - change_time >= OverrideWindow
RevertDue == changed_interval /\ now - change_time > OverrideWindow

----------------------------------------------------------------------------
\* The state when measurement_loop reaches its while loop: the instruments of
\* the config file loaded (insts, each device sourcing one of funcs), the bus
\* callback connected, next_time = time.time().
Names(insts) == {insts[n] : n \in 1..Len(insts)}
NoError == [kind |-> "none", names |-> "none"]
NoItem == [serial |-> "none", explicit |-> FALSE, resources |-> <<>>,
           do_reset |-> FALSE, do_config |-> FALSE]
\* load_instruments has returned
InitLoaded ==
    /\ item = NoItem
    /\ spc = "loaded"
    /\ found = 0
    /\ opened = {}
    /\ extra_reads = <<>>
    /\ start_error = NoError
    /\ startsent = <<>>
    /\ main_pc = "wait"
InitState(insts) ==
    /\ instruments = insts
    /\ now = 0
    /\ stop_event = FALSE
    /\ interval = native_interval
    /\ changed_interval = FALSE
    /\ change_time = 0
    /\ next_time = 0
    /\ pc = "top"
    /\ idx = 1
    /\ pk = 0
    /\ published = {}
    /\ poll_error = "none"
    /\ calls = <<>>
    /\ forwarded = <<>>
    /\ hpc = "idle"
    /\ hcall = NoCall
    /\ hk = 0
    /\ hres = "none"
    /\ hinv = "none"
    /\ harmed = FALSE
    /\ hsent = <<>>
    /\ lock = [i \in Names(insts) |-> "free"]
    /\ wire = [i \in Names(insts) |-> NoWire]
    /\ drv = [i \in Names(insts) |-> [source_limit |-> NormLimit(Config(i, 0))]]
    /\ prev_deadline = 0
    /\ last_writer = "init"
    /\ last_step = 0
    /\ adv_time = 0
\* No call of find_SCPI is being looked at
NoLookup == [name |-> "none"]
NotLookedUp == [t |-> "none"]
InitBase(insts) == InitState(insts) /\ InitLoaded /\ lookup = NoLookup /\ looked_up = NotLookedUp
InitWith(insts, funcs) ==
    /\ InitBase(insts)
    /\ dev \in [Names(insts) -> {[func |-> f] : f \in funcs}]
    /\ \A i \in Names(insts) : InstrumentType(i) # "Keithley2470" => dev[i].func = "VOLT"

\* The clock advances (time passes in wire transactions, sleeps and waits)
Tick(horizon) ==
    /\ now < horizon
    /\ now' = now + 1
    /\ UNCHANGED <<stop_event, sched, schedhist, pollvars, handlervars, instvars>>

\* main: a signal sets stop_event
Stop ==
    /\ ~stop_event
    /\ stop_event' = TRUE
    /\ UNCHANGED <<now, sched, schedhist, pollvars, handlervars, instvars>>

----------------------------------------------------------------------------
\* One wire transaction of thread t's operation c, n - 1 transactions done.
\* fin: the operation ends with this transaction (last one, or the code raises
\* right after it).
OpEnds(c, n) == n >= Len(Script(c)) \/ Script(c)[n + 1] = RaiseHere
OpRaisesAfter(c, n) == n < Len(Script(c)) /\ Script(c)[n + 1] = RaiseHere

TransactKeepLock(t, c, n) ==
    LET i == c.inst
        cmd == Script(c)[n]
    IN  /\ dev' = [dev EXCEPT ![i] = DevAfter(i, dev[i], cmd)]
        /\ drv' = [drv EXCEPT ![i] = DrvAfter(c, drv[i], n)]
        /\ UNCHANGED loadvars
        /\ lock' = [lock EXCEPT ![i] = t]
        /\ wire' = [wire EXCEPT ![i] =
                       IF OpEnds(c, n) THEN NoWire
                       ELSE [by |-> t, op |-> c.op, k |-> n, last |-> cmd]]
Transact(t, c, n) ==
    LET i == c.inst
        cmd == Script(c)[n]
    IN  /\ dev' = [dev EXCEPT ![i] = DevAfter(i, dev[i], cmd)]
        /\ drv' = [drv EXCEPT ![i] = DrvAfter(c, drv[i], n)]
        /\ UNCHANGED loadvars
        /\ IF OpEnds(c, n)
           THEN /\ lock' = [lock EXCEPT ![i] = "free"]
                /\ wire' = [wire EXCEPT ![i] = NoWire]
           ELSE /\ lock' = [lock EXCEPT ![i] = t]
                /\ wire' = [wire EXCEPT ![i] =
                               [by |-> t, op |-> c.op, k |-> n, last |-> cmd]]

\* The transaction times out or fails: the exception leaves the with block
AbortKeepLock(c) == UNCHANGED <<lock, wire, loadvars, dev, drv>>
Abort(c) ==
    /\ lock' = [lock EXCEPT ![c.inst] = "free"]
    /\ wire' = [wire EXCEPT ![c.inst] = NoWire]
    /\ UNCHANGED <<loadvars, dev, drv>>

----------------------------------------------------------------------------
\* measurement_loop: while not stop_event.is_set()
PollTop ==
    /\ pc = "top"
    /\ spc = "loaded" /\ main_pc = "wait"
    /\ IF stop_event
       THEN /\ pc' = "done"
            /\ UNCHANGED <<idx, published, adv_time, calls, forwarded>>
       ELSE /\ pc' = "read"
            /\ idx' = 1
            /\ published' = {}
            /\ calls' = <<>>
            /\ forwarded' = <<>>
            /\ adv_time' = 0
    /\ pk' = 0
    /\ UNCHANGED <<now, stop_event, sched, prev_deadline, last_writer, last_step,
                   poll_error, handlervars, instvars>>

\* The dict read() / get_set_values() returns: under each key the value
\* converted from the response to one query (named here by that query); the
\* keys of the channelled supply are f"{ch}_voltage" and so on
Returned(op, i) ==
    IF InstrumentType(i) = "Keithley2470"
    THEN IF op = "read"
         THEN [k \in {<<"", "voltage">>, <<"", "current">>, <<"", "power_state">>} |->
                 CASE k[2] = "voltage" -> Cmd("MEAS:VOLT?")
                   [] k[2] = "current" -> Cmd("MEAS:CURR?")
                   [] OTHER -> Cmd("OUTP?")]
         ELSE [k \in {<<"", "set_voltage">>, <<"", "set_current">>} |->
                 IF k[2] = "set_voltage" THEN Cmd("SOUR:VOLT?") ELSE Cmd("SOUR:CURR?")]
    ELSE IF op = "read"
         THEN [k \in {"CH1", "CH2"} \X {"voltage", "current", "power_state"} |->
                 CASE k[2] = "voltage" -> CmdCh("VO?", channel_map(k[1]), 0)
                   [] k[2] = "current" -> CmdCh("IO?", channel_map(k[1]), 0)
                   [] OTHER -> CmdCh("OP?", channel_map(k[1]), 0)]
         ELSE [k \in {"CH1", "CH2"} \X {"set_voltage", "set_current"} |->
                 IF k[2] = "set_voltage" THEN CmdCh("V?", channel_map(k[1]), 0)
                 ELSE CmdCh("I?", channel_map(k[1]), 0)]
\* measurement_loop: {**readings, **set_vals}
MergeReadingsOnly(readings, set_vals) == readings
Merge(readings, set_vals) ==
    [k \in DOMAIN readings \cup DOMAIN set_vals |->
        IF k \in DOMAIN set_vals THEN set_vals[k] ELSE readings[k]]

PollCall == Call(IF pc = "read" THEN "read" ELSE "get_set_values", instruments[idx], "", Null)

\* measurement_loop: a wire transaction of inst.read() / inst.get_set_values();
\* after get_set_values() the merged payload is published.
PollWire ==
    /\ pc \in {"read", "gsv"}
    /\ main_pc = "wait"
    /\ pk = 0 => LockFree(instruments[idx])
    /\ calls' = IF pk = 0 THEN Append(calls, [inst |-> PollCall.inst, op |-> PollCall.op])
                ELSE calls
    /\ \E ok \in BOOLEAN :
         IF ok
         THEN /\ Transact("loop", PollCall, pk + 1)
              /\ IF ~OpEnds(PollCall, pk + 1)
                 THEN /\ pk' = pk + 1
                      /\ UNCHANGED <<pc, idx, published, forwarded>>
                 ELSE /\ pk' = 0
                      /\ IF pc = "read"
                         THEN /\ pc' = "gsv"
                              /\ UNCHANGED <<idx, published, forwarded>>
                         ELSE /\ published' = published \cup {instruments[idx]}
                              /\ forwarded' = Append(forwarded,
                                    [name |-> instruments[idx],
                                     payload |-> Merge(Returned("read", instruments[idx]),
                                                       Returned("get_set_values",
                                                                instruments[idx]))])
                              /\ IF idx < Len(instruments)
                                 THEN pc' = "read" /\ idx' = idx + 1
                                 ELSE pc' = "advance" /\ UNCHANGED idx
              /\ UNCHANGED poll_error
         ELSE \* the exception propagates out of measurement_loop: the thread ends
              /\ Abort(PollCall)
              /\ pc' = "dead"
              /\ poll_error' = instruments[idx]
              /\ UNCHANGED <<idx, pk, published, forwarded>>
    /\ UNCHANGED <<now, stop_event, sched, schedhist, handlervars>>

\* measurement_loop: with time_lock: next_time += interval; revert the override
PollAdvance ==
    /\ pc = "advance"
    /\ main_pc = "wait"
    /\ next_time' = AdvanceDeadline
    /\ prev_deadline' = next_time
    /\ last_writer' = "loop"
    /\ last_step' = interval
    /\ adv_time' = now
    /\ IF RevertDue
       THEN changed_interval' = FALSE /\ interval' = native_interval
       ELSE UNCHANGED <<changed_interval, interval>>
    /\ pc' = "wait"
    /\ UNCHANGED <<now, stop_event, change_time, idx, pk, published,
                   poll_error, calls, forwarded, handlervars, instvars>>

\* measurement_loop: while not stop_event.is_set() and time.time() < next_time
WaitOverAtDeadline == now >= next_time
WaitOver == stop_event \/ now >= next_time
PollWait ==
    /\ pc = "wait"
    /\ main_pc = "wait"
    /\ WaitOver
    /\ pc' = "top"
    /\ UNCHANGED <<now, stop_event, sched, schedhist, idx, pk, published,
                   poll_error, calls, forwarded, handlervars, instvars>>

----------------------------------------------------------------------------
\* handle_mqtt up to the first wire transaction of the driver call: topic and
\* payload checks, the time_lock block, and the routing of the command.
Receive(m) ==
    /\ hpc = "idle"
    /\ spc = "loaded"
    /\ IF ~Accepted(m)
       THEN /\ hpc' = "ret"
            /\ hres' = DropReason(m)
            /\ UNCHANGED <<hinv, harmed, hcall, sched, schedhist>>
       ELSE /\ interval' = Arm(now)[1]
            /\ changed_interval' = Arm(now)[2]
            /\ change_time' = Arm(now)[3]
            /\ next_time' = Arm(now)[4]
            /\ harmed' = (/\ interval' = OverrideInterval /\ changed_interval'
                           /\ change_time' = now /\ next_time' = now)
            /\ prev_deadline' = next_time
            /\ last_writer' = "mqtt"
            /\ UNCHANGED <<last_step, adv_time>>
            /\ LET r == Route(m)
                   c == r.call
               IN  IF r.kind = "call"
                   THEN /\ hinv' = c.op
                        /\ IF RaisesBeforeLock(c.inst, c.op, c.chan, c.p)
                           THEN hpc' = "ret" /\ hres' = "raised"
                           ELSE hpc' = "call" /\ hres' = "none"
                        /\ hcall' = c
                   ELSE /\ hpc' = "ret"
                        /\ hres' = (IF r.kind = "noop" THEN "noop" ELSE "unknown_command")
                        /\ UNCHANGED <<hinv, hcall>>
    /\ UNCHANGED <<now, stop_event, pollvars, hk, hsent, instvars>>

\* handle_mqtt: a wire transaction of the driver call; an exception of the
\* driver ("raised": raised by the driver's own code, "wire_error": raised by
\* the transaction) is caught by handle_mqtt's except clause
HandlerWire ==
    /\ hpc = "call"
    /\ hk = 0 => LockFree(hcall.inst)
    /\ IF OpRaisesAfter(hcall, hk) \/ hk >= Len(Script(hcall))
       THEN /\ Abort(hcall)
            /\ hpc' = "ret"
            /\ hres' = (IF OpRaisesAfter(hcall, hk) THEN "raised" ELSE "done")
            /\ UNCHANGED <<hk, hsent>>
       ELSE \E ok \in BOOLEAN :
              IF ok
              THEN /\ Transact("mqtt", hcall, hk + 1)
                   /\ hsent' = Append(hsent, Script(hcall)[hk + 1])
                   /\ IF OpEnds(hcall, hk + 1)
                      THEN /\ hpc' = "ret"
                           /\ hres' = (IF OpRaisesAfter(hcall, hk + 1)
                                       THEN "raised" ELSE "done")
                           /\ UNCHANGED hk
                      ELSE /\ hk' = hk + 1
                           /\ UNCHANGED <<hpc, hres>>
              ELSE /\ Abort(hcall)
                   /\ hpc' = "ret"
                   /\ hres' = "wire_error"
                   /\ UNCHANGED <<hk, hsent>>
    /\ UNCHANGED <<now, stop_event, sched, schedhist, pollvars,
                   hcall, hinv, harmed>>

\* handle_mqtt returns to the bus client
HandlerReturn ==
    /\ hpc = "ret"
    /\ hpc' = "idle"
    /\ hcall' = NoCall
    /\ hk' = 0
    /\ hres' = "none"
    /\ hinv' = "none"
    /\ harmed' = FALSE
    /\ hsent' = <<>>
    /\ UNCHANGED <<now, stop_event, sched, schedhist, pollvars, instvars>>

----------------------------------------------------------------------------
\* Control messages the bus delivers
T3(n, c) == <<"control", n, c>>
T4(n, ch, c) == <<"control", n, ch, c>>
Num5 == [t |-> "float", v |-> 5]
Int1 == [t |-> "int", v |-> 1]
True == [t |-> "bool", v |-> 1]
False == [t |-> "bool", v |-> 0]
ControlTopics(cmds) ==
    {T3(n, c) : n \in InstrumentNames, c \in cmds} \cup
    {T4(n, ch, c) : n \in InstrumentNames, ch \in {"CH1", "CH9"}, c \in cmds}
DropMsgs ==
    {Msg(t, Int1) : t \in {<<"control">>, <<"control", "smu1">>,
                           T3("ghost", "output"), T4("ghost", "CH1", "set_voltage")}} \cup
    {Msg(t, p) : t \in {T3("smu1", "reset"), T4("psu1", "CH1", "set_voltage")},
                 p \in {BadJson, BadUtf8}}
SetMsgs == {Msg(t, p) : t \in ControlTopics({"set_voltage", "set_current"}), p \in {Num5, Null}}
OutputMsgs == {Msg(t, p) : t \in ControlTopics({"output"}), p \in {True, False}}
ConfigureMsgs == {Msg(T3(n, "configure"), p) : n \in InstrumentNames, p \in JsonValues}
ResetPayloads ==
    {[t |-> "int", v |-> 0], Int1, False, [t |-> "float", v |-> 0], Null,
     [t |-> "str", v |-> 0], [t |-> "list", v |-> 0], [t |-> "obj", v |-> 0]}
ResetMsgs ==
    {Msg(t, p) : t \in {T3("smu1", "reset"), T3("psu1", "reset"), T4("psu1", "CH1", "reset")},
                 p \in ResetPayloads}
UnknownMsgs == {Msg(t, Int1) : t \in ControlTopics({"bogus"})}
\* Topics with a channel segment, with an empty one, and with five segments
ChannelMsgs ==
    {Msg(t, Num5) : t \in {T4("psu1", "CH2", "set_voltage"), T4("psu1", "", "set_voltage"),
                           T4("psu1", "", "output"),
                           <<"control", "psu1", "set_current", "CH2", "now">>}}
Msgs ==
    DropMsgs \cup SetMsgs \cup OutputMsgs \cup ConfigureMsgs \cup ResetMsgs \cup
    UnknownMsgs \cup ChannelMsgs

SchedMsgs ==
    {Msg(t, Int1) : t \in {T3("smu1", "output"), T3("smu1", "bogus"),
                           T3("ghost", "output")}}

\* The steps of the polling thread
Poll == PollTop \/ PollWire \/ PollAdvance \/ PollWait

\* The daemon with both instruments and every control message, at one instant:
\* every interleaving of the polling thread, the bus thread and shutdown
Init == InitWith(<<"smu1", "psu1">>, {"VOLT", "CURR"})
Next ==
    \/ Stop
    \/ PollTop
    \/ PollWire
    \/ PollAdvance
    \/ PollWait
    \/ \E m \in Msgs : Receive(m)
    \/ HandlerWire
    \/ HandlerReturn
Spec == Init /\ [][Next]_vars

\* The daemon with one instrument over the whole override window, control
\* messages arriving up to MaxArrive
InitSched == InitWith(<<"smu1">>, {"VOLT"})
NextSched ==
    \/ Tick(MaxTime)
    \/ PollTop
    \/ PollWire
    \/ PollAdvance
    \/ PollWait
    \/ \E m \in SchedMsgs : now <= MaxArrive /\ Receive(m)
    \/ HandlerWire
    \/ HandlerReturn
SpecSched == InitSched /\ [][NextSched]_vars

\* The same daemon when a signal may arrive at any moment: the first cycles up
\* to MaxStopTime, under fair scheduling of the clock, the polling thread and
\* the bus thread
MaxStopTime == 12
NextStop ==
    \/ Stop
    \/ Tick(MaxStopTime)
    \/ PollTop
    \/ PollWire
    \/ PollAdvance
    \/ PollWait
    \/ \E m \in SchedMsgs : now <= MaxArrive /\ Receive(m)
    \/ HandlerWire
    \/ HandlerReturn
SpecStop ==
    /\ InitSched /\ [][NextStop]_vars
    /\ WF_vars(Tick(MaxStopTime)) /\ WF_vars(Poll)
    /\ WF_vars(HandlerWire \/ HandlerReturn)

\* utilities.py find_SCPI, called on its own with every kind of requested value.
\* A str is its text in lower case and how it is capitalised; text without
\* letters has one form only.
Str(text, case) == [t |-> "str", text |-> text, case |-> case]
Code(text) == Str(text, "upper")
Syn(text) == Str(text, "lower")
\* str.lower()
LowerNothing(s) == s
Lower(s) == [s EXCEPT !.case = "lower"]
\* Python's == between a requested value and an entry of a synonym list: a str
\* equals the same str only, True == 1 and False == 0
PyEq(a, b) ==
    IF a.t = "str" \/ b.t = "str"
    THEN a.t = b.t /\ a.text = b.text /\ a.case = b.case
    ELSE a.t \in {"bool", "int", "float"} /\ b.t \in {"bool", "int", "float"} /\ a.v = b.v
\* The synonym tables, in the order of their keys
off_state_SCPI ==
    <<[key |-> Code("norm"), syn |-> {Syn("normal"), Syn("norm")}],
      [key |-> Code("zero"), syn |-> {Syn("zero")}],
      [key |-> Code("himp"), syn |-> {Syn("himpedance"), Syn("high impedance"), Syn("himp")}],
      [key |-> Code("guar"), syn |-> {Syn("guard"), Syn("guar")}]>>
terminals_SCPI ==
    <<[key |-> Code("fron"), syn |-> {Syn("fron"), Syn("front")}],
      [key |-> Code("rear"), syn |-> {Syn("rear")}]>>
remote_SCPI ==
    <<[key |-> Code("on"), syn |-> {Syn("on"), True}],
      [key |-> Code("off"), syn |-> {Syn("off"), False}]>>
trip_action_SCPI ==
    <<[key |-> Syn("0"), syn |-> {Syn("no_action")}],
      [key |-> Syn("1"), syn |-> {Syn("ramp_down")}],
      [key |-> Syn("2"), syn |-> {Syn("off")}],
      [key |-> Syn("3"), syn |-> {Syn("off_module")}],
      [key |-> Syn("4"), syn |-> {Syn("disable_trip")}]>>
\* for key in SCPI_dict: if processed_command in SCPI_dict[key]: return key
RECURSIVE FirstKey(_, _, _, _)
FirstKey(processed_command, SCPI_dict, k, default) ==
    IF k > Len(SCPI_dict) THEN default
    ELSE IF \E y \in SCPI_dict[k].syn : PyEq(processed_command, y) THEN SCPI_dict[k].key
    ELSE FirstKey(processed_command, SCPI_dict, k + 1, default)
find_SCPI(config, name, SCPI_dict, default) ==
    LET command == IF name \in DOMAIN config THEN config[name] ELSE default
        processed_command == IF command.t = "str" THEN Lower(command) ELSE command
    IN  FirstKey(processed_command, SCPI_dict, 1, default)
\* The calls of find_SCPI in the drivers
SCPISites ==
    {[name |-> "off_state", SCPI_dict |-> off_state_SCPI, default |-> Code("norm")],
     [name |-> "terminals", SCPI_dict |-> terminals_SCPI, default |-> Code("fron")],
     [name |-> "remote_sense", SCPI_dict |-> remote_SCPI, default |-> Code("off")],
     [name |-> "trip_action", SCPI_dict |-> trip_action_SCPI, default |-> Syn("4")]}
\* The values a config file or a configure payload can give for the name
Requested ==
    {Str(x, c) : x \in {"front", "fron", "rear", "zero", "high impedance", "himp",
                        "on", "off", "no_action", "disable_trip", "xyz"},
                 c \in {"lower", "upper", "mixed"}} \cup
    {Syn("4"), True, False, Int1, [t |-> "int", v |-> 0], Num5, Null,
     [t |-> "list", v |-> 0], [t |-> "obj", v |-> 0]}
Lookups ==
    UNION {{[name |-> site.name, SCPI_dict |-> site.SCPI_dict, default |-> site.default,
             config |-> cfg] :
               cfg \in {<<>>} \cup {[n \in {site.name} |-> v] : v \in Requested}} :
           site \in SCPISites}
FindSCPI ==
    /\ lookup # NoLookup
    /\ looked_up = NotLookedUp
    /\ looked_up' = find_SCPI(lookup.config, lookup.name, lookup.SCPI_dict, lookup.default)
    /\ UNCHANGED <<now, stop_event, sched, schedhist, pollvars, handlervars,
                   instruments, item, spc, found, opened, extra_reads, start_error,
                   startsent, main_pc, lookup, lock, wire, dev, drv>>
InitSCPI ==
    /\ InitState(<<"smu1">>) /\ InitLoaded
    /\ dev = [i \in {"smu1"} |-> [func |-> "VOLT"]]
    /\ lookup \in Lookups
    /\ looked_up = NotLookedUp
NextSCPI == FindSCPI
SpecSCPI == InitSCPI /\ [][NextSCPI]_vars

\* Both instruments with the control messages whose driver calls hold a lock
\* over several wire transactions, arriving in any number up to MaxContend,
\* under fair scheduling of the clock, the polling thread and the bus thread
MaxContend == 0
ContendMsgs ==
    {Msg(T3("smu1", "set_voltage"), Num5), Msg(T3("smu1", "configure"), Int1),
     Msg(T4("psu1", "CH1", "set_voltage"), Num5), Msg(T4("psu1", "CH9", "output"), True)}
NextContend ==
    \/ Tick(MaxContend + 1)
    \/ PollTop
    \/ PollWire
    \/ PollAdvance
    \/ PollWait
    \/ \E m \in ContendMsgs : now <= MaxContend /\ Receive(m)
    \/ HandlerWire
    \/ HandlerReturn
SpecContend ==
    /\ InitWith(<<"smu1", "psu1">>, {"VOLT"}) /\ [][NextContend]_vars
    /\ WF_vars(Tick(MaxContend + 1)) /\ WF_vars(Poll)
    /\ WF_vars(HandlerWire \/ HandlerReturn)

\* One driver used directly by its callers (handle_mqtt, load_instruments, a
\* second thread): every method with arguments of every kind, the device
\* keeping all its settings
F(n) == [t |-> "float", v |-> n]
Obj(n) == [t |-> "obj", v |-> n]
DrvChannels(i) ==
    IF InstrumentType(i) = "ISEGSHR" THEN {"", "CH3", "CH9"} ELSE {"", "CH1", "CH9"}
\* The override configs tried on instrument i (those that differ in a
\* setting its driver reads)
DrvConfigs(i) ==
    IF InstrumentType(i) = "Keithley2470" THEN 3..8
    ELSE IF InstrumentType(i) = "ISEGSHR" THEN {8} ELSE {3, 5, 8}
DrvCalls ==
    LET i == instruments[1]
    IN  {Call("set_voltage", i, ch, p) :
            ch \in DrvChannels(i),
            p \in IF InstrumentType(i) = "Keithley2470"
                  THEN {F(-15), F(5), F(15), Null} ELSE {F(5)}} \cup
        {Call("set_current", i, ch, p) :
            ch \in DrvChannels(i),
            p \in IF InstrumentType(i) = "Keithley2470" THEN {F(-15), F(5)} ELSE {F(5)}} \cup
        {Call("set_output", i, ch, p) : ch \in DrvChannels(i), p \in {True, False}} \cup
        {Call("configure", i, "", p) : p \in {Null} \cup {Obj(n) : n \in DrvConfigs(i)}} \cup
        {Call(op, i, "", Null) : op \in {"reset", "read", "get_set_values"}}

\* A caller invokes a driver method
DriverCall(c) ==
    /\ hpc = "idle"
    /\ hinv' = c.op
    /\ hcall' = c
    /\ IF RaisesBeforeLock(c.inst, c.op, c.chan, c.p)
       THEN hpc' = "ret" /\ hres' = "raised"
       ELSE hpc' = "call" /\ hres' = "none"
    /\ UNCHANGED <<now, stop_event, sched, schedhist, pollvars, hk, harmed, hsent, instvars>>

\* The device after the commands cmds, up to the point where the code raises
RECURSIVE DevRun(_, _, _)
DevRun(i, d, cmds) ==
    IF cmds = <<>> \/ Head(cmds) = RaiseHere THEN d
    ELSE LET d1 == DevAfter(i, d, Head(cmds))
         IN  IF d1 = d THEN DevRun(i, d, Tail(cmds)) ELSE DevRun(i, d1, Tail(cmds))

\* Another thread runs configure on the same driver: its whole critical
\* section, which it can enter when the lock is free
OtherConfig == 8
ConcurrentConfigure(i, n) ==
    LET c == Call("configure", i, "", Obj(n))
    IN  /\ LockFree(i)
        /\ dev' = [dev EXCEPT ![i] = DevRun(i, dev[i], Script(c))]
        /\ drv' = [drv EXCEPT ![i] = DrvAfter(c, drv[i], 3)]
        /\ UNCHANGED <<now, stop_event, sched, schedhist, pollvars, handlervars,
                       loadvars, lock, wire>>

InitDrv ==
    /\ \E i \in {"smu1", "psu1", "hv1"} : InitBase(<<i>>)
    /\ dev \in [InstrumentNames -> {[func |-> f, set |-> <<>>] : f \in {"VOLT", "CURR"}}]
    /\ \A i \in InstrumentNames : InstrumentType(i) # "Keithley2470" => dev[i].func = "VOLT"
NextDrv ==
    \/ \E c \in DrvCalls : DriverCall(c)
    \/ HandlerWire
    \/ HandlerReturn
    \/ ConcurrentConfigure(instruments[1], OtherConfig)
SpecDrv == InitDrv /\ [][NextDrv]_vars

----------------------------------------------------------------------------
\* The start of the daemon: main starts the polling thread and waits for
\* stop_event; the thread loads the one instrument of the config file
\* (find_matching_resource, the driver's constructor, reset() and configure()
\* if asked for) and enters the polling loop.
MaxResources == 2    \* most resources the resource manager lists

\* A serial number as text: its characters and whether blanks surround them
Serial(core, pad) == [core |-> core, pad |-> pad]
\* str.strip()
StripNothing(s) == s
Strip(s) == [s EXCEPT !.pad = FALSE]

\* What a listed resource does when it is opened and asked "*IDN?":
\*   "blocked": its address is in device_specific_skip
\*   "noopen": open_resource raises       "noanswer": query raises
\*   "malformed": the answer has not four comma-separated fields
\*   "idn": the answer's third field is serial
\*   "echo": the answer is the query text, the next read gives the real answer
Resources ==
    {[kind |-> k, serial |-> Serial("S1", FALSE)] :
        k \in {"blocked", "noopen", "noanswer", "malformed", "echo"}} \cup
    {[kind |-> "idn", serial |-> s] :
        s \in {Serial("S1", FALSE), Serial("S1", TRUE), Serial("S2", FALSE)}}
RECURSIVE SeqsUpTo(_, _)
SeqsUpTo(S, n) ==
    IF n = 0 THEN {<<>>}
    ELSE SeqsUpTo(S, n - 1) \cup
         {Append(q, x) : q \in {r \in SeqsUpTo(S, n - 1) : Len(r) = n - 1}, x \in S}

\* find_matching_resource: resource in device_specific_skip
InSkipList(r) == r.kind = "blocked"
\* find_matching_resource: the loop over list_resources() from index k on, op
\* being the resources opened so far
\* The responses a resource delivers after "*IDN?" is written to it, in the
\* order they are read: an echoing transport hands the query text back first
\* (a resource of the skip list is only ever asked when the config file gives
\* its address)
EchoText == [kind |-> "text", text |-> "*IDN?"]
IdnText(s) == [kind |-> "fields", serial |-> s]
Malformed == [kind |-> "text", text |-> "malformed"]
Responses(r) ==
    CASE r.kind \in {"idn", "blocked"} -> <<IdnText(r.serial)>>
      [] r.kind = "echo" -> <<EchoText, IdnText(r.serial)>>
      [] r.kind = "malformed" -> <<Malformed>>
      [] OTHER -> <<>>
\* find_matching_resource: idn = inst.query("*IDN?").strip();
\* if idn == '*IDN?': idn = inst.read().strip()
\* reads counts the inst.read() calls, idn is the text that is split (an
\* exception is raised when the query times out)
DiscoveryIdn(r) ==
    LET q == Responses(r)
    IN  IF q = <<>> THEN [reads |-> 0, raised |-> TRUE, idn |-> Malformed]
        ELSE IF q[1] = EchoText
        THEN [reads |-> 1, raised |-> FALSE, idn |-> q[2]]
        ELSE [reads |-> 0, raised |-> FALSE, idn |-> q[1]]
\* Instrument.__init__: idn = self.resource.query("*IDN?").strip()
ConstructorIdn(r) ==
    LET q == Responses(r)
    IN  IF q = <<>> THEN [reads |-> 0, raised |-> TRUE, idn |-> Malformed]
        ELSE [reads |-> 0, raised |-> FALSE, idn |-> q[1]]
RECURSIVE ScanResources(_, _, _, _, _)
ScanResources(rs, sn, k, op, rd) ==
    IF k > Len(rs)
    THEN [found |-> 0, opened |-> op, reads |-> rd,
          error |-> [kind |-> "not_found", names |-> sn]]
    ELSE IF InSkipList(rs[k]) THEN ScanResources(rs, sn, k + 1, op, rd)
    ELSE IF rs[k].kind = "noopen" THEN ScanResources(rs, sn, k + 1, op, rd)
    ELSE LET a == DiscoveryIdn(rs[k])
             rd1 == (k :> a.reads) @@ rd
         IN  IF ~a.raised /\ a.idn.kind = "fields" /\ sn = Strip(a.idn.serial)
             THEN [found |-> k, opened |-> op \cup {k}, reads |-> rd1, error |-> NoError]
             ELSE ScanResources(rs, sn, k + 1, op \cup {k}, rd1)
find_matching_resource(it) ==
    IF it.explicit
    THEN IF Len(it.resources) >= 1 /\ it.resources[1].kind # "noopen"
         THEN [found |-> 1, opened |-> {1}, reads |-> <<>>, error |-> NoError]
         ELSE [found |-> 0, opened |-> {}, reads |-> <<>>,
               error |-> [kind |-> "resource_not_found", names |-> "address"]]
    ELSE ScanResources(it.resources, it.serial, 1, {}, <<>>)

\* An exception leaves measurement_loop: the polling thread ends
ThreadDies(e) ==
    /\ spc' = "dead"
    /\ start_error' = e
\* load_instruments after the constructor / after reset()
AfterConstruct == IF item.do_reset THEN "reset" ELSE IF item.do_config THEN "configure" ELSE "loaded"
AfterReset == IF item.do_config THEN "configure" ELSE "loaded"

\* load_instruments: resource = find_matching_resource(rm, item)
LoadFind ==
    /\ spc = "find" /\ main_pc = "wait"
    /\ LET r == find_matching_resource(item)
       IN  /\ found' = r.found
           /\ opened' = r.opened
           /\ extra_reads' = r.reads
           /\ IF r.found = 0 THEN ThreadDies(r.error)
              ELSE spc' = "construct" /\ UNCHANGED start_error
    /\ UNCHANGED <<now, stop_event, sched, schedhist, pollvars, handlervars,
                   instruments, lookup, looked_up, item, startsent, main_pc, lock,
                   wire, dev, drv>>

\* load_instruments: inst = cls(item, resource, log)   (Instrument.__init__)
LoadConstruct ==
    /\ spc = "construct" /\ main_pc = "wait"
    /\ LET a == ConstructorIdn(item.resources[found])
       IN  IF a.raised
           THEN ThreadDies([kind |-> "wire", names |-> "none"]) /\ UNCHANGED startsent
           ELSE /\ startsent' = <<Cmd("*IDN?")>> \o [n \in 1..a.reads |-> Cmd("read")]
                /\ IF a.idn.kind # "fields"
                   THEN ThreadDies([kind |-> "bad_idn", names |-> "none"])
                   ELSE IF item.serial # a.idn.serial
                   THEN ThreadDies([kind |-> "mismatch", names |-> item.serial])
                   ELSE spc' = AfterConstruct /\ UNCHANGED start_error
    /\ UNCHANGED <<now, stop_event, sched, schedhist, pollvars, handlervars,
                   instruments, lookup, looked_up, item, found, opened, extra_reads,
                   main_pc, lock, wire,
                   dev, drv>>

\* load_instruments: a driver method called on the new driver, nothing else
\* running yet
LoadCall(c, next) ==
    \E ok \in BOOLEAN :
        IF ~ok
        THEN /\ ThreadDies([kind |-> "wire", names |-> "none"])
             /\ UNCHANGED <<startsent, dev, drv>>
        ELSE /\ dev' = [dev EXCEPT ![c.inst] = DevRun(c.inst, dev[c.inst], Script(c))]
             /\ drv' = [drv EXCEPT ![c.inst] = DrvAfter(c, drv[c.inst], 3)]
             /\ startsent' = startsent \o SelectSeq(Script(c), LAMBDA x : x # RaiseHere)
             /\ IF \E k \in 1..Len(Script(c)) : Script(c)[k] = RaiseHere
                THEN ThreadDies([kind |-> "raised", names |-> "none"])
                ELSE spc' = next /\ UNCHANGED start_error
\* load_instruments: if do_reset: inst.reset()
LoadReset ==
    /\ spc = "reset" /\ main_pc = "wait"
    /\ LoadCall(Call("reset", instruments[1], "", Null), AfterReset)
    /\ UNCHANGED <<now, stop_event, sched, schedhist, pollvars, handlervars,
                   instruments, lookup, looked_up, item, found, opened, extra_reads,
                   main_pc, lock, wire>>
\* load_instruments: if do_config: inst.configure()
LoadConfigure ==
    /\ spc = "configure" /\ main_pc = "wait"
    /\ LoadCall(Call("configure", instruments[1], "", Null), "loaded")
    /\ UNCHANGED <<now, stop_event, sched, schedhist, pollvars, handlervars,
                   instruments, lookup, looked_up, item, found, opened, extra_reads,
                   main_pc, lock, wire>>

\* main: stop_event.wait() returns, thr.join(timeout=1), the process ends
MainExit ==
    /\ main_pc = "wait"
    /\ stop_event
    /\ main_pc' = "exited"
    /\ UNCHANGED <<now, stop_event, sched, schedhist, pollvars, handlervars,
                   instruments, lookup, looked_up, item, spc, found, opened, extra_reads,
                   start_error,
                   startsent, lock, wire, dev, drv>>

InitStart ==
    /\ InitState(<<"smu1">>)
    /\ dev = [i \in {"smu1"} |-> [func |-> "VOLT"]]
    /\ item \in [serial : {Serial("S1", FALSE), Serial("S1", TRUE)},
                  explicit : BOOLEAN,
                  resources : SeqsUpTo(Resources, MaxResources),
                  do_reset : BOOLEAN, do_config : BOOLEAN]
    /\ item.do_reset = item.do_config
    /\ spc = "find"
    /\ found = 0
    /\ opened = {}
    /\ extra_reads = <<>>
    /\ start_error = NoError
    /\ startsent = <<>>
    /\ main_pc = "wait"
    /\ lookup = NoLookup /\ looked_up = NotLookedUp
NextStart ==
    \/ LoadFind
    \/ LoadConstruct
    \/ LoadReset
    \/ LoadConfigure
    \/ Stop
    \/ MainExit
    \/ PollTop
    \/ PollWire
    \/ PollAdvance
    \/ PollWait
SpecStart == InitStart /\ [][NextStart]_vars

----------------------------------------------------------------------------
\* C1: within a poll cycle a read() or get_set_values() that raises is caught:
\* the polling thread does not end, the remaining instruments are still polled
\* and later cycles run.  (Stated as: whatever instrument raised, the polling
\* thread is still running.)
C1_PollFailureIsolated == poll_error # "none" => pc # "dead"

\* C2: the wire transactions of one driver operation are never interleaved with
\* those of another operation on the same instrument: while a thread is between
\* the first and the last transaction of its operation it holds the instrument's
\* lock, and the latest transaction on that instrument is its own latest one.
MidPoll == pc \in {"read", "gsv"} /\ pk >= 1
MidHandler == hpc = "call" /\ hk >= 1
OwnsWire(t, c, n) ==
    /\ lock[c.inst] = t
    /\ wire[c.inst] = [by |-> t, op |-> c.op, k |-> n, last |-> Script(c)[n]]
C2_NoInterleaving ==
    /\ MidPoll => OwnsWire("loop", PollCall, pk)
    /\ MidHandler => OwnsWire("mqtt", hcall, hk)
    /\ \A i \in InstrumentNames :
         wire[i].by # "none" =>
            \/ wire[i].by = "loop" /\ MidPoll /\ instruments[idx] = i
            \/ wire[i].by = "mqtt" /\ MidHandler /\ hcall.inst = i
\* C2 witness: the bus thread is in the middle of configure while the polling
\* thread wants to read the same instrument
C2_Witness ==
    /\ MidHandler /\ hcall.op = "configure" /\ hk >= 2
    /\ pc = "read" /\ pk = 0 /\ instruments[idx] = hcall.inst

\* Steps of handle_mqtt seen from outside: a message is taken up / the call goes on
DropReasons == {"bad_topic", "unknown_instrument", "decode_error", "bad_json"}
TakesAccepted == hpc = "idle" /\ hpc' # "idle" /\ hres' \notin DropReasons
HandlerGoesOn == hpc # "idle" /\ <<hpc, hk>>' # <<hpc, hk>>

\* C3: on every accepted control message handle_mqtt sets, in one step under the
\* schedule lock, interval = 1, changed_interval = true, change_time = now and
\* next_time = now; as long as that deadline stands, a scheduler waiting for its
\* deadline can start its next cycle at once.
C3_ArmStep ==
    TakesAccepted =>
        /\ interval' = 1 /\ changed_interval'
        /\ change_time' = now /\ next_time' = now
C3_ArmState ==
    last_writer = "mqtt" =>
        /\ interval = 1 /\ changed_interval
        /\ next_time = change_time /\ next_time <= now
        /\ (pc = "wait" => WaitOver)
C3_ArmForcesCycle == [][C3_ArmStep]_vars /\ []C3_ArmState
\* C3 witness: the scheduler waits, a message has replaced a deadline that was
\* still in the future, and the loop may go on
C3_Witness ==
    /\ pc = "wait" /\ last_writer = "mqtt" /\ ~stop_event
    /\ prev_deadline > now /\ next_time <= now

\* The same daemon under fair scheduling: time passes, the polling thread and
\* the bus thread each take their next step when they can
SpecLive ==
    /\ InitSched /\ [][NextSched]_vars
    /\ WF_vars(Tick(MaxTime)) /\ WF_vars(Poll)
    /\ WF_vars(HandlerWire \/ HandlerReturn)

\* measurement_loop: a cycle ends (the time_lock block runs)
CycleEnds == pc = "advance" /\ pc' = "wait"
\* The override is reverted only at the end of a cycle, at the first one where
\* now - change_time > 30 and at none where it is <= 30
RevertStep ==
    /\ (changed_interval /\ ~changed_interval') =>
          CycleEnds /\ now - change_time > OverrideWindow /\ interval' = native_interval
    /\ (CycleEnds /\ changed_interval /\ now - change_time > OverrideWindow) =>
          ~changed_interval' /\ interval' = native_interval
    /\ (CycleEnds /\ changed_interval /\ now - change_time <= OverrideWindow) =>
          changed_interval' /\ interval' = OverrideInterval
RevertOnlyWhenDue == [][RevertStep]_vars
\* The revert has happened at the first cycle end later than 30 after a message
\* at t = 2
Reverted ==
    /\ ~changed_interval /\ interval = native_interval /\ change_time = 2
    /\ last_writer = "loop" /\ last_step = OverrideInterval
    /\ adv_time = 33 /\ now = 33 /\ pc = "wait"
\* If the polling thread never ends, an armed override is eventually reverted
RevertedIfLoopLives == [](pc # "dead") => (changed_interval ~> ~changed_interval)

\* C4: once the override is armed and no further message arrives, the scheduler
\* reverts it at the first cycle end with now - change_time > 30; under fair
\* scheduling of the threads an armed override is eventually reverted.
C4_RevertEventually == changed_interval ~> ~changed_interval

\* C5: a control message accepted while the override is active sets change_time
\* to its arrival time and leaves interval at 1, and the override is not
\* reverted until more than 30 time units after the latest message.
C5_RearmStep ==
    (TakesAccepted /\ changed_interval) =>
        /\ interval = 1 /\ interval' = 1 /\ changed_interval'
        /\ change_time' = now
C5_RevertStep ==
    (changed_interval /\ ~changed_interval') => now - change_time > 30
C5_Rearm == [][C5_RearmStep /\ C5_RevertStep]_vars
\* C5 witness: a message at t = 2 found the override active (the loop had already
\* stepped by 1); at t = 32, more than 30 after every earlier message, a cycle
\* has ended and the override is still active
C5_Witness ==
    /\ changed_interval /\ interval = 1 /\ change_time = 2
    /\ prev_deadline >= 1 /\ last_writer = "loop" /\ pc = "wait"
    /\ adv_time = 32 /\ now = 32

\* C6: the deadline the loop sets is the previous deadline plus the interval in
\* force, whatever time the cycle took and even if that deadline is already past;
\* a past deadline lets the next cycle start at once.
C6_DriftFree ==
    last_writer = "loop" =>
        /\ next_time = prev_deadline + last_step
        /\ last_step \in {OverrideInterval, native_interval}
        /\ (changed_interval => last_step = OverrideInterval)
        /\ (pc = "wait" /\ next_time <= now => WaitOver)
\* C6 witness: interval 10, the first cycle (deadline 0) took 3 time units, and the
\* next deadline is 10, not 13
C6_Witness ==
    /\ pc = "wait" /\ last_writer = "loop" /\ prev_deadline = 0
    /\ adv_time = 3 /\ now = 3 /\ last_step = 10 /\ next_time = 10
    /\ next_time # adv_time + last_step

\* C7: for every accepted control message the override is armed in the step
\* that takes the message up, before the first wire transaction of the driver
\* call, and no later step of the handler (the call succeeding, raising, or no
\* call at all) changes the schedule, whichever command it was.
C7_ArmedState ==
    (hpc # "idle" /\ hres \notin DropReasons) =>
        /\ harmed /\ changed_interval /\ interval = OverrideInterval
        /\ (hinv # "none" => hinv \in {"set_voltage", "set_current", "set_output",
                                       "configure", "reset"})
C7_HandlerStep == HandlerGoesOn => UNCHANGED <<interval, changed_interval, change_time>>
C7_ArmedWhateverTheCall == []C7_ArmedState /\ [][C7_HandlerStep]_vars
\* C7 witness: set_voltage raised in the middle of its wire conversation and the
\* override is armed
C7_Witness ==
    /\ hpc = "ret" /\ hres = "wire_error" /\ Len(hsent) = 1
    /\ hcall.op = "set_voltage" /\ hinv = "set_voltage"
    /\ harmed /\ changed_interval /\ interval = OverrideInterval

\* C8: a message with a topic of fewer than three segments, an unknown
\* instrument or a payload that is not JSON is dropped: no driver method is
\* invoked, no instrument is touched, the schedule is unchanged and the handler
\* returns.
C8_DropStep ==
    \A m \in DropMsgs :
        Receive(m) =>
            /\ UNCHANGED <<sched, instvars>>
            /\ hinv' = "none" /\ hcall' = NoCall /\ ~harmed'
            /\ hpc' = "ret" /\ hres' \in DropReasons
C8_Dropped == [][C8_DropStep]_vars
\* C8 witness: a payload that is not JSON has been dropped before any message
\* was accepted
C8_Witness ==
    /\ hpc = "ret" /\ hres = "bad_json" /\ hinv = "none"
    /\ ~changed_interval /\ interval = native_interval

\* C9 as stated: an unknown command for a known instrument invokes no driver
\* method and leaves the schedule unchanged.
C9_UnknownIgnoredStep ==
    \A m \in UnknownMsgs :
        Receive(m) => (hinv' = "none" /\ UNCHANGED sched)
C9_UnknownIgnored == [][C9_UnknownIgnoredStep]_vars
\* C9 amended: an unknown command for a known instrument invokes no driver
\* method and touches no instrument, and the override is armed as for every
\* accepted message.
C9_UnknownArmsStep ==
    \A m \in UnknownMsgs :
        Receive(m) =>
            /\ hinv' = "none" /\ hcall' = NoCall /\ UNCHANGED instvars
            /\ hpc' = "ret" /\ hres' = "unknown_command"
            /\ interval' = 1 /\ changed_interval'
            /\ change_time' = now /\ next_time' = now
C9_UnknownArms == [][C9_UnknownArmsStep]_vars
\* C9 witness: an unknown command has been handled: nothing invoked, override armed
C9_Witness ==
    /\ hpc = "ret" /\ hres = "unknown_command" /\ hinv = "none"
    /\ harmed /\ changed_interval

\* Python's zero: the payloads that compare equal to 0
IsZero(p) == p.t \in {"int", "float", "bool"} /\ p.v = 0
\* C10 as stated: a reset message invokes reset() exactly when its payload is
\* truthy.
C10_ResetIffTruthyStep ==
    \A m \in ResetMsgs :
        Receive(m) => (hinv' = "reset" <=> PyTruthy(m.payload))
C10_ResetIffTruthy == [][C10_ResetIffTruthyStep]_vars
\* C10 amended: a reset message invokes reset() exactly when its payload is not
\* equal to 0: 0, 0.0 and false do not, null, "", [] and {} do.
C10_ResetIffNonZeroStep ==
    \A m \in ResetMsgs :
        Receive(m) => (hinv' = "reset" <=> ~IsZero(m.payload))
C10_ResetIffNonZero == [][C10_ResetIffNonZeroStep]_vars
\* C10 witness: reset() is running for a null payload
C10_Witness ==
    /\ hpc = "call" /\ hcall.op = "reset" /\ hcall.p = Null /\ hk >= 1

\* The source function the device is left in by a configure with config cfg
FuncOf(cfg) == IF cfg.source = "current" THEN "CURR" ELSE "VOLT"
\* C11 as stated: a configure message with a truthy boolean or integer payload
\* calls configure() with the default config, with an object payload it calls
\* configure(payload), and with any falsy payload (0, false, null, {}) the
\* handler does not go on to a driver call that writes to the wire.
C11_FalsyNoOpStep ==
    \A m \in ConfigureMsgs :
        Receive(m) =>
            LET p == m.payload
                i == TopicName(m)
            IN  /\ (p.t \in {"int", "bool"} /\ PyTruthy(p)) =>
                       (hpc' = "call" /\ hcall' = Call("configure", i, "", Null))
                /\ (p.t = "obj" /\ PyTruthy(p)) => hcall' = Call("configure", i, "", p)
                /\ ~PyTruthy(p) => (hpc' = "ret" /\ UNCHANGED instvars)
C11_FalsyNoOp == [][C11_FalsyNoOpStep]_vars
\* C11 amended: a configure message with a non-zero boolean or integer payload
\* calls configure() with the default config; with an object payload that has a
\* 'config' entry it calls configure(payload), which configures from that
\* payload; with 0 or false no driver method is called; with null configure(None)
\* is called, which reconfigures with the default config; every other payload
\* (0.0, a string, a list, an object without 'config', {} included) makes
\* configure raise before it takes the lock, so nothing is written.  A configure
\* that ran to its end left the device sourcing what its config asks for and the
\* driver with that config's source limit.
C11_ConfigureRouteStep ==
    \A m \in ConfigureMsgs :
        Receive(m) =>
            LET p == m.payload
                i == TopicName(m)
            IN  CASE p.t \in {"int", "bool"} /\ p.v # 0 ->
                        /\ hpc' = "call" /\ hcall' = Call("configure", i, "", Null)
                        /\ Script(hcall') = Script(Call("configure", i, "", Obj(0)))
                  [] p.t \in {"int", "bool"} /\ p.v = 0 ->
                        /\ hpc' = "ret" /\ hres' = "noop"
                        /\ hinv' = "none" /\ hcall' = NoCall /\ UNCHANGED instvars
                  [] p.t = "null" ->
                        /\ hpc' = "call" /\ hcall' = Call("configure", i, "", p)
                        /\ Script(hcall') = Script(Call("configure", i, "", Obj(0)))
                  [] p.t = "obj" /\ p.v >= 2 ->
                        /\ hpc' = "call" /\ hcall' = Call("configure", i, "", p)
                  [] OTHER ->
                        /\ hpc' = "ret" /\ hres' = "raised"
                        /\ hinv' = "configure" /\ UNCHANGED instvars
C11_ConfiguredState ==
    (/\ hpc = "ret" /\ hres = "done" /\ hcall.op = "configure"
     /\ InstrumentType(hcall.inst) = "Keithley2470") =>
        /\ dev[hcall.inst].func = FuncOf(Config(hcall.inst, hcall.p.v))
        /\ drv[hcall.inst].source_limit = NormLimit(Config(hcall.inst, hcall.p.v))
C11_ConfigureRoute == []C11_ConfiguredState /\ [][C11_ConfigureRouteStep]_vars
\* C11 witness: configure(payload) ran to its end with an override config that
\* sources current, and the device sources current
C11_Witness ==
    /\ hpc = "ret" /\ hres = "done" /\ hcall = Call("configure", "smu1", "", Obj(3))
    /\ dev["smu1"].func = "CURR" /\ drv["smu1"].source_limit = NoLimit

\* The driver method a command names
C12_MethodOf(cmd) == IF cmd = "output" THEN "set_output" ELSE cmd
\* The handler is in a driver call and this step is one of its wire steps
C12_HandlerWireStep == hpc = "call" /\ <<hpc, hk, hsent>>' # <<hpc, hk, hsent>>
\* Only instrument i may be touched by the step
C12_OnlyTouches(i) ==
    \A j \in InstrumentNames \ {i} :
        lock'[j] = lock[j] /\ wire'[j] = wire[j] /\ dev'[j] = dev[j] /\ drv'[j] = drv[j]
\* C12 as stated: for set_voltage, set_current and output the channel is
\* forwarded to the driver method exactly when the topic has four segments,
\* the method is called on the instrument the topic names with the payload as
\* its value, and the call touches no other instrument.
C12_ForwardIffFourStep ==
    /\ \A m \in SetMsgs \cup OutputMsgs \cup ChannelMsgs :
          Receive(m) =>
              /\ hinv' = C12_MethodOf(IF Len(m.topic) = 4 THEN m.topic[4] ELSE m.topic[3])
              /\ hcall'.op = hinv' /\ hcall'.inst = m.topic[2] /\ hcall'.p = m.payload
              /\ (hcall'.chan # "") <=> (Len(m.topic) = 4)
              /\ Len(m.topic) = 4 => hcall'.chan = m.topic[3]
              /\ UNCHANGED instvars
    /\ C12_HandlerWireStep => C12_OnlyTouches(hcall.inst)
C12_ForwardIffFour == [][C12_ForwardIffFourStep]_vars
\* C12 amended: the channel is forwarded exactly when the topic has four
\* segments and its channel segment is not empty; with three segments, with
\* more than four, or with an empty channel segment the method is called
\* without a channel.  The call goes to the instrument the topic names, with
\* the payload as its value, and touches no other instrument.
C12_ForwardNonEmptyStep ==
    /\ \A m \in SetMsgs \cup OutputMsgs \cup ChannelMsgs :
          Receive(m) =>
              /\ hinv' = C12_MethodOf(IF Len(m.topic) = 4 THEN m.topic[4] ELSE m.topic[3])
              /\ hcall'.op = hinv' /\ hcall'.inst = m.topic[2] /\ hcall'.p = m.payload
              /\ (hcall'.chan # "") <=> (Len(m.topic) = 4 /\ m.topic[3] # "")
              /\ Len(m.topic) = 4 => hcall'.chan = m.topic[3]
              /\ UNCHANGED instvars
    /\ C12_HandlerWireStep => C12_OnlyTouches(hcall.inst)
C12_ForwardNonEmpty == [][C12_ForwardNonEmptyStep]_vars
\* C12 witness: control/psu1/CH2/set_voltage 5.0 has written V2 5 to psu1 while
\* smu1 is untouched by the handler
C12_Witness ==
    /\ hpc = "ret" /\ hres = "done"
    /\ hcall = Call("set_voltage", "psu1", "CH2", Num5)
    /\ hsent = <<CmdCh("V", "2", 5)>>
    /\ wire["smu1"] = NoWire /\ lock["smu1"] = "free"

\* The step completes a write of a source level by set_voltage / set_current
C13_SourceWriteStep ==
    /\ hpc = "call" /\ hcall.op \in {"set_voltage", "set_current"}
    /\ InstrumentType(hcall.inst) = "Keithley2470"
    /\ Len(hsent') = Len(hsent) + 1
    /\ hsent'[Len(hsent')].cmd \in {"SOUR:VOLT", "SOUR:CURR"}
\* The step is the one in which a configure with config cfg stores its limit
\* (the handler's configure after its third write, or another thread's)
C13_StoresLimitStep(i) ==
    \/ /\ hpc = "call" /\ hcall.op = "configure" /\ hcall.inst = i
       /\ Len(hsent) = 2 /\ Len(hsent') = 3
       /\ drv'[i].source_limit = NormLimit(Config(i, hcall.p.v))
    \/ /\ UNCHANGED handlervars /\ lock[i] = "free"
       /\ drv'[i].source_limit = NormLimit(Config(i, OtherConfig))
\* C13: with a source limit L in force, every source level written by
\* set_voltage / set_current for a numeric request is within L: the request itself if |request| <= L,
\* else +L or -L with the sign of the request; a numeric request is never
\* rejected (the call ends normally unless the wire fails); and the limit only
\* changes when a configure stores the limit of its config.
C13_ClampStep ==
    /\ (C13_SourceWriteStep /\ PyIsNumber(hcall.p)) =>
          LET L == drv[hcall.inst].source_limit
              r == hcall.p.v
              v == hsent'[Len(hsent')].arg
          IN  IF L = NoLimit THEN v = r
              ELSE /\ Abs(v) <= L
                   /\ Abs(r) > L => v = (IF r > 0 THEN L ELSE -L)
                   /\ Abs(r) <= L => v = r
    /\ (/\ hpc = "call" /\ hpc' = "ret" /\ hcall.op \in {"set_voltage", "set_current"}
        /\ InstrumentType(hcall.inst) = "Keithley2470" /\ PyIsNumber(hcall.p)) =>
          hres' \in {"done", "wire_error"}
    /\ \A i \in InstrumentNames :
          drv'[i].source_limit # drv[i].source_limit => C13_StoresLimitStep(i)
C13_LimitOfLastConfigure ==
    (/\ hpc = "call" /\ hcall.op = "configure" /\ Len(hsent) >= 3
     /\ InstrumentType(hcall.inst) = "Keithley2470") =>
        drv[hcall.inst].source_limit = NormLimit(Config(hcall.inst, hcall.p.v))
C13_Clamped == []C13_LimitOfLastConfigure /\ [][C13_ClampStep]_vars
\* C13 witness: after a configure with source_limit -7, set_current(-15) wrote
\* SOUR:CURR -7
C13_Witness ==
    /\ hpc = "ret" /\ hres = "done" /\ hcall = Call("set_current", "smu1", "", F(-15))
    /\ drv["smu1"].source_limit = 7
    /\ hsent = <<Query("SOUR:FUNC?", "CURR"), CmdCh("SOUR:CURR", "", -7)>>

\* The source function set_voltage / set_current writes for
C14_FuncOfOp(op) == IF op = "set_voltage" THEN "VOLT" ELSE "CURR"
C14_InSetSource ==
    /\ hcall.op \in {"set_voltage", "set_current"}
    /\ InstrumentType(hcall.inst) = "Keithley2470"
\* C14: when the device answers the SOUR:FUNC? query of set_voltage with the
\* other source function (CURR; VOLT for set_current), the query is the only
\* wire transaction of the call, nothing is written and the call returns
\* normally.  The query is answered with the function the device is sourcing,
\* and from the query to the write the caller holds the instrument lock and the
\* source function stays what the query saw, so the write reaches a device
\* that sources the written quantity, whatever another thread's configure does.
C14_InterlockState ==
    C14_InSetSource =>
        /\ (hsent # <<>> /\ hsent[1].resp # C14_FuncOfOp(hcall.op)) =>
              /\ hsent = <<Query("SOUR:FUNC?", hsent[1].resp)>>
              /\ hpc = "ret" /\ hres = "done"
        /\ (hpc = "call" /\ hk >= 1) =>
              /\ lock[hcall.inst] = "mqtt"
              /\ dev[hcall.inst].func = hsent[1].resp
C14_InterlockStep ==
    /\ (C14_InSetSource /\ hpc = "call" /\ hsent = <<>> /\ Len(hsent') = 1) =>
          hsent'[1] = Query("SOUR:FUNC?", dev[hcall.inst].func)
    /\ C13_SourceWriteStep =>
          /\ dev[hcall.inst].func = C14_FuncOfOp(hcall.op)
          /\ lock[hcall.inst] = "mqtt"
          /\ hsent'[Len(hsent')].cmd = (IF hcall.op = "set_voltage" THEN "SOUR:VOLT"
                                         ELSE "SOUR:CURR")
C14_Interlock == []C14_InterlockState /\ [][C14_InterlockStep]_vars
\* C14 witness: set_voltage on a device sourcing current has returned normally
\* after its query, with nothing written
C14_Witness ==
    /\ hpc = "ret" /\ hres = "done" /\ hcall = Call("set_voltage", "smu1", "", F(5))
    /\ hsent = <<Query("SOUR:FUNC?", "CURR")>> /\ dev["smu1"].func = "CURR"

\* The commands that switch every output off and that reset the device
C15_OutputOff ==
    {CmdCh("OUTP", "", 0), CmdCh("OPALL", "", 0), CmdCh(":VOLT ON|OFF", "0-3", 0)}
C15_Fresh == [func |-> "VOLT", set |-> <<>>]
\* The writes among the first n transactions of the call (the echo reads of
\* the ISEG driver left out)
RECURSIVE C15_Writes(_)
C15_Writes(n) ==
    IF n = 0 THEN <<>>
    ELSE IF hsent[n].cmd = "read" THEN C15_Writes(n - 1)
    ELSE Append(C15_Writes(n - 1), hsent[n])
\* C15: the first write of configure, for each driver, switches the outputs
\* off, the second is *RST, and every setting is written after both; a
\* configure that ran to its end (or to the point where its code raises) leaves
\* the device with the settings the same configure gives a freshly reset
\* device, so running it again leaves the settings as they are.
C15_OffResetFirst ==
    (hcall.op = "configure" /\ hsent # <<>>) =>
        LET w == C15_Writes(Len(hsent))
        IN  /\ w[1] \in C15_OutputOff
            /\ Len(w) >= 2 => w[2] = Cmd("*RST")
            /\ \A k \in 3..Len(w) : w[k] \notin C15_OutputOff /\ w[k].cmd # "*RST"
C15_IdempotentStep ==
    (/\ hpc = "call" /\ hcall.op = "configure"
     /\ hpc' = "ret" /\ hres' \in {"done", "raised"}) =>
        LET i == hcall.inst
        IN  /\ dev'[i] = DevRun(i, C15_Fresh, Script(hcall))
            /\ dev'[i] = DevRun(i, dev'[i], Script(hcall))
C15_ResetThenSettings == []C15_OffResetFirst /\ [][C15_IdempotentStep]_vars
\* C15 witness: an ISEG configure with an override for CH2 ran to its end
\* and the device holds the settings of CH2 and none of another channel
C15_Witness ==
    /\ hpc = "ret" /\ hres = "done" /\ hcall = Call("configure", "hv1", "", Obj(8))
    /\ Len(hsent) = 44
    /\ <<":VOLT", "2">> \in DOMAIN dev["hv1"].set
    /\ <<":VOLT", "3">> \notin DOMAIN dev["hv1"].set

\* The group of per-channel settings a command belongs to
C16_Group(c) ==
    CASE c.cmd \in {"IRANGE", ":CONF:RANGE:CURR"} -> "range"
      [] c.cmd \in {"OVP", "OCP", ":CONF:TRIP:TIME", ":CONF:TRIP:ACTION",
                    ":CONF:INH:ACTION"} -> "trip"
      [] c.cmd \in {":CONF:OUTPUT:MODE", ":CONF:OUTPUT:POL", "DAMPING"} -> "mode"
      [] c.cmd \in {":CONF:RAMP:VOLT:UP", ":CONF:RAMP:VOLT:DOWN",
                    ":CONF:RAMP:CURR:UP", ":CONF:RAMP:CURR:DOWN"} -> "ramp"
      [] c.cmd \in {"V", "I", ":VOLT", ":CURR"} -> "setpoint"
      [] OTHER -> "none"
\* The stated order: range, protection/trip, polarity/mode, ramp rates, setpoints
C16_StatedRank(g) ==
    CASE g = "range" -> 1 [] g = "trip" -> 2 [] g = "mode" -> 3
      [] g = "ramp" -> 4 [] OTHER -> 5
\* The order with the range of an ISEG channel between ramp rates and setpoints
C16_DriverRank(i, g) ==
    IF InstrumentType(i) = "ISEGSHR"
    THEN CASE g = "trip" -> 1 [] g = "mode" -> 2 [] g = "ramp" -> 3
           [] g = "range" -> 4 [] OTHER -> 5
    ELSE C16_StatedRank(g)
\* Transactions j < k of the configure in progress set the same channel
C16_SameChannel(j, k) ==
    /\ j < k /\ hsent[j].ch = hsent[k].ch /\ hsent[j].ch \notin {"", "0-3"}
    /\ C16_Group(hsent[j]) # "none" /\ C16_Group(hsent[k]) # "none"
\* C16 as stated: within configure the settings of a channel are written in
\* the order range, protection/trip, polarity/mode, ramp rates, setpoints.
C16_StatedOrder ==
    hcall.op = "configure" =>
        \A j, k \in 1..Len(hsent) :
            C16_SameChannel(j, k) =>
                C16_StatedRank(C16_Group(hsent[j])) <= C16_StatedRank(C16_Group(hsent[k]))
\* C16 amended: within configure the settings of a channel are written in a
\* fixed order: by the TTi driver range, then protection/trip (then damping,
\* then setpoints); by the ISEG driver trip, then inhibit/mode/polarity, then
\* ramp rates, then the current range, then setpoints.
C16_DriverOrder ==
    hcall.op = "configure" =>
        \A j, k \in 1..Len(hsent) :
            C16_SameChannel(j, k) =>
                C16_DriverRank(hcall.inst, C16_Group(hsent[j])) <=
                    C16_DriverRank(hcall.inst, C16_Group(hsent[k]))
\* C16 witness: an ISEG configure has written the current range of channel 2
\* after its ramp rates and before its setpoints
C16_Witness ==
    /\ hpc = "ret" /\ hres = "done" /\ hcall.op = "configure" /\ hcall.inst = "hv1"
    /\ \E k \in 3..(Len(hsent) - 2) :
          /\ hsent[k - 2] = CmdCh(":CONF:RAMP:CURR:DOWN", "2", 4)
          /\ hsent[k] = CmdCh(":CONF:RANGE:CURR", "2", 0)
          /\ hsent[k + 2] = CmdCh(":VOLT", "2", 0)

\* C17: configure never fails because of a setting that is out of its domain
\* or absent: it ends normally unless the wire fails, and an nplc outside
\* [0.01, 10] is written as 1 while one inside is written unchanged.
C17_ConfigureNeverFails ==
    hcall.op = "configure" =>
        /\ hpc = "ret" => hres \in {"done", "wire_error"}
        /\ \A k \in 1..Len(hsent) :
              hsent[k].cmd = "SENS:NPLC" =>
                  LET n == Config(hcall.inst, hcall.p.v).nplc
                  IN  hsent[k].arg = (IF n >= 1 /\ n <= 10 THEN n ELSE 1)

\* The channels of the driver of instrument i, and the wire name of each
C18_Channels(i) ==
    IF InstrumentType(i) = "TTiPL303QMDP" THEN {"CH1", "CH2"}
    ELSE IF InstrumentType(i) = "ISEGSHR" THEN {"CH0", "CH1", "CH2", "CH3"}
    ELSE {}
C18_WireName(ch) ==
    CASE ch = "CH0" -> "0" [] ch = "CH1" -> "1" [] ch = "CH2" -> "2" [] ch = "CH3" -> "3"
      [] OTHER -> "none"
C18_SetOps == {"set_output", "set_voltage", "set_current"}
\* The call c lacks a channel it needs, or names a channel the driver has not
C18_BadChannel(c) ==
    \/ c.chan = "" /\ c.op \in {"set_voltage", "set_current"} /\ C18_Channels(c.inst) # {}
    \/ c.chan # "" /\ c.chan \notin C18_Channels(c.inst)
\* C18: set_output, set_voltage and set_current called without a channel they
\* need, or with a channel the driver does not have, raise in the step of the
\* call itself: the lock is not taken and nothing is written; called with a
\* valid channel they go on, and when they end normally their only write went
\* to that channel.
C18_CallStep ==
    (hpc = "idle" /\ hpc' # "idle" /\ hcall'.op \in C18_SetOps) =>
        IF C18_BadChannel(hcall')
        THEN /\ hpc' = "ret" /\ hres' = "raised" /\ hsent' = <<>>
             /\ UNCHANGED <<lock, wire, dev, drv>>
        ELSE hpc' = "call" /\ hres' = "none"
C18_ChannelState ==
    (hcall.op \in C18_SetOps /\ hpc = "ret") =>
        /\ C18_BadChannel(hcall) => (hres = "raised" /\ hsent = <<>>)
        /\ (hres = "done" /\ hcall.chan # "") =>
              LET w == C15_Writes(Len(hsent))
              IN  Len(w) = 1 /\ w[1].ch = C18_WireName(hcall.chan)
C18_InvalidChannel == []C18_ChannelState /\ [][C18_CallStep]_vars
\* C18 witness: set_voltage on the TTi driver with the unknown channel CH9 has
\* raised with nothing written
C18_Witness ==
    /\ hpc = "ret" /\ hres = "raised" /\ hcall = Call("set_voltage", "psu1", "CH9", F(5))
    /\ hsent = <<>> /\ lock["psu1"] = "free" /\ wire["psu1"] = NoWire

\* C19: when the serial in the identification response differs from the
\* configured serial at construction, construction fails, the device has been
\* sent nothing but the identification query, the polling loop is not entered,
\* and the daemon goes down: main has left its wait or the stop event that
\* releases it is set.
C19_MismatchAborts ==
    start_error.kind = "mismatch" =>
        /\ spc = "dead"
        /\ startsent = <<Cmd("*IDN?")>>
        /\ pc = "top" /\ published = {}
        /\ main_pc = "exited" \/ stop_event

\* The identification response of resource j carries the requested serial
\* once trimmed
C20_Match(j) ==
    /\ item.resources[j].kind \in {"idn", "echo"}
    /\ item.resources[j].serial.core = item.serial.core
    /\ ~item.serial.pad
\* C20: find_matching_resource by serial returns the first resource, in the
\* order of list_resources(), that is not in the skip list and whose
\* identification response has a trimmed serial field equal to the requested
\* serial; resources of the skip list are never opened; a resource whose open
\* or query fails, or whose answer is malformed or names another serial, is
\* passed over; when no resource matches, the error raised names the
\* requested serial.
C20_FirstMatch ==
    (spc # "find" /\ ~item.explicit) =>
        /\ found \in 0..Len(item.resources)
        /\ found # 0 => (C20_Match(found) /\ \A j \in 1..(found - 1) : ~C20_Match(j))
        /\ found = 0 =>
              /\ \A j \in 1..Len(item.resources) : ~C20_Match(j)
              /\ spc = "dead"
              /\ start_error = [kind |-> "not_found", names |-> item.serial]
        /\ \A j \in 1..Len(item.resources) :
              j \in opened <=>
                  /\ item.resources[j].kind \notin {"blocked", "noopen"}
                  /\ found = 0 \/ j <= found
\* C20 witness: the first resource did not answer and was passed over, the
\* second, whose serial field is padded with blanks, was returned
C20_Witness ==
    /\ spc = "construct" /\ ~item.explicit /\ found = 2 /\ opened = {1, 2}
    /\ item.resources[1].kind = "noanswer"
    /\ item.resources[2] = [kind |-> "idn", serial |-> Serial("S1", TRUE)]

\* The identification conversation find_matching_resource had with the
\* resources it queried: one inst.read() after the query on an echoing
\* transport, whose second response then decides the match, and none otherwise
C21_DiscoveryReads ==
    \A j \in DOMAIN extra_reads :
        /\ extra_reads[j] = IF item.resources[j].kind = "echo" THEN 1 ELSE 0
        /\ (item.resources[j].kind = "echo"
                /\ item.serial = Strip(item.resources[j].serial)) => found = j
\* The identification conversation of Instrument.__init__ on an echoing
\* transport: the query, one read, and the second response is the one parsed
C21_ConstructorReads ==
    (found # 0 /\ spc \notin {"find", "construct"}
        /\ item.resources[found].kind = "echo") =>
        /\ Len(startsent) >= 2
        /\ startsent[1] = Cmd("*IDN?") /\ startsent[2] = Cmd("read")
        /\ Len(startsent) >= 3 => startsent[3] # Cmd("read")
        /\ start_error.kind # "bad_idn"
\* C21: whenever a transport returns the query text as the first response to
\* the identification query, the code, in discovery and in the construction of
\* the driver alike, issues exactly one extra read and takes the second
\* response as the identification; without the echo it issues no extra read.
C21_EchoExtraRead == C21_DiscoveryReads /\ C21_ConstructorReads

\* C30: a resource that find_matching_resource returned as matching the
\* configured serial passes the identity check of Instrument.__init__ for that
\* serial: the constructor does not raise the serial-mismatch error on it,
\* whatever blanks surround the serial field of its identification response.
C30_SameVerdict ==
    (~item.explicit /\ found # 0 /\ spc \notin {"find", "construct"}) =>
        start_error.kind # "mismatch"

\* C22: an in-flight wire transaction, and the driver operation it belongs to,
\* runs to completion after shutdown is requested: the process has not exited,
\* and so the polling thread has not been killed, while the polling thread is
\* between two wire transactions of a read() or get_set_values().
C22_NoForcedInterruption == main_pc = "exited" => ~MidPoll

\* No cycle is started once stop_event is set
C23_NoNewCycleStep == stop_event => ~(pc = "top" /\ pc' = "read")
\* After a shutdown request measurement_loop ends: it leaves the while loop,
\* or an exception of a driver call has ended it
C23_Terminates == stop_event ~> (pc \in {"done", "dead"})
\* C23: once stop_event is set the polling loop starts no new cycle: the wait
\* for next_time ends without the deadline being reached, the loop condition
\* is checked again and the loop is left, so that under fair scheduling
\* measurement_loop terminates after any shutdown request.
C23_StopEndsLoop == [][C23_NoNewCycleStep]_vars /\ C23_Terminates
\* C23 witness: the loop was left on a shutdown request while its deadline was
\* still in the future
C23_Witness == stop_event /\ pc = "done" /\ now < next_time /\ adv_time # 0

\* handle_mqtt is ending on an exception of the driver call
C24_Raised == hpc = "ret" /\ hres \in {"raised", "wire_error"}
\* The step on which the driver call raises: handle_mqtt goes to its end, the
\* polling thread is where it was, the instrument is not left locked
C24_RaiseStep ==
    (hpc # "ret" /\ C24_Raised') =>
        /\ UNCHANGED pollvars
        /\ lock'[hcall'.inst] # "mqtt" /\ wire'[hcall'.inst].by # "mqtt"
\* The next step of handle_mqtt is its return to the bus client
C24_ReturnStep ==
    (C24_Raised /\ hpc' # hpc) => (hpc' = "idle" /\ UNCHANGED <<pollvars, instvars>>)
\* While handle_mqtt ends on the exception, the polling thread is not kept out
\* of the instrument, and it has not ended unless a driver call of its own raised
C24_PollGoesOn ==
    C24_Raised =>
        /\ lock[hcall.inst] # "mqtt"
        /\ (pc \in {"read", "gsv"} /\ pk = 0 /\ instruments[idx] = hcall.inst)
              => LockFree(hcall.inst)
        /\ pc = "dead" => poll_error # "none"
\* C24: a driver call that raises inside handle_mqtt (invalid channel, wire
\* error, bad payload type) is caught: handle_mqtt returns normally to the bus
\* client, and the polling loop goes on with its cycles, neither stopped nor
\* locked out by the failed call.
C24_HandlerRaiseCaught ==
    [][C24_RaiseStep /\ C24_ReturnStep]_vars /\ []C24_PollGoesOn
\* C24 witness: configure failed on a wire error in the middle of its
\* conversation while the polling thread is about to read the same instrument
C24_Witness ==
    /\ C24_Raised /\ hres = "wire_error" /\ hcall.op = "configure" /\ Len(hsent) >= 2
    /\ pc = "read" /\ pk = 0 /\ instruments[idx] = hcall.inst

\* The driver methods of a whole cycle: for each instrument in the order of
\* the config file, read() then get_set_values()
C25_CycleCalls ==
    [j \in 1..(2 * Len(instruments)) |->
        [inst |-> instruments[(j + 1) \div 2],
         op |-> IF j % 2 = 1 THEN "read" ELSE "get_set_values"]]
\* The calls made so far in the cycle are the first ones of that sequence
C25_CallOrder ==
    /\ Len(calls) <= Len(C25_CycleCalls)
    /\ \A j \in 1..Len(calls) : calls[j] = C25_CycleCalls[j]
\* The payloads forwarded so far: one for each instrument whose two calls have
\* returned, in order, holding every key of either map with the value of
\* get_set_values() where it has the key and that of read() elsewhere
C25_Payloads ==
    /\ 2 * Len(forwarded) <= Len(calls)
    /\ Len(calls) <= 2 * Len(forwarded) + 2
    /\ \A j \in 1..Len(forwarded) :
         LET r == Returned("read", instruments[j])
             g == Returned("get_set_values", instruments[j])
             q == forwarded[j].payload
         IN  /\ forwarded[j].name = instruments[j]
             /\ DOMAIN q = DOMAIN r \cup DOMAIN g
             /\ \A k \in DOMAIN g : q[k] = g[k]
             /\ \A k \in DOMAIN r \ DOMAIN g : q[k] = r[k]
\* At the end of a cycle every instrument has been polled and forwarded
C25_WholeCycle ==
    pc \in {"advance", "wait"} =>
        /\ Len(calls) = 2 * Len(instruments)
        /\ Len(forwarded) = Len(instruments)
C26_Contains(entry, x) ==
    IF x.t = "str"
    THEN \E y \in entry.syn : y.t = "str" /\ y.text = x.text
    ELSE x.t \in {"bool", "int", "float"} /\ \E y \in entry.syn : y.t = "bool" /\ y.v = x.v
\* C26: find_SCPI returns the wire code whose synonym list contains the
\* lower-cased requested value, whatever the letter case of the request; when
\* the value is absent or matches no synonym it returns the supplied default
\* unchanged; it returns a code for every requested value (it never raises).
C26_Resolved ==
    looked_up # NotLookedUp =>
        LET present == lookup.name \in DOMAIN lookup.config
            hits == IF present
                    THEN {k \in 1..Len(lookup.SCPI_dict) :
                             C26_Contains(lookup.SCPI_dict[k], lookup.config[lookup.name])}
                    ELSE {}
        IN  /\ \A k \in hits : looked_up = lookup.SCPI_dict[k].key
            /\ hits = {} => looked_up = lookup.default
            /\ looked_up.t = "str"
\* C26 witness: "Front" was requested for the terminals and FRON came back
C26_Witness ==
    /\ lookup.name = "terminals" /\ lookup.config # <<>>
    /\ lookup.config["terminals"] = Str("front", "mixed")
    /\ looked_up = Code("fron")

\* The instrument locks thread t holds
C27_Held(t) == {i \in Names(instruments) : lock[i] = t}
\* A thread holds at most one instrument lock, that of the driver operation it
\* is in: no driver operation takes another lock
C27_OneInstrumentLock ==
    /\ \A t \in {"loop", "mqtt"} : Cardinality(C27_Held(t)) <= 1
    /\ \A i \in C27_Held("mqtt") : hpc = "call" /\ hcall.inst = i
    /\ \A i \in C27_Held("loop") : pc \in {"read", "gsv"} /\ instruments[idx] = i
\* The steps that run a time_lock block (handle_mqtt arming the override, the
\* polling loop advancing its deadline) are taken by a thread that holds no
\* instrument lock before or after: handle_mqtt calls the driver in a later step
C27_TimeLockStep ==
    /\ TakesAccepted => (C27_Held("mqtt") = {} /\ C27_Held("mqtt")' = {})
    /\ CycleEnds => (C27_Held("loop") = {} /\ C27_Held("loop")' = {})
\* C27: no thread ever holds two locks at once: handle_mqtt has left its
\* time_lock block before it calls a driver method, the polling loop holds no
\* instrument lock when it takes time_lock, and a driver operation takes the
\* lock of its own instrument only.
C27_NoTwoLocks == []C27_OneInstrumentLock /\ [][C27_TimeLockStep]_vars
\* C27 witness: both instrument locks are held, each by another thread
C27_Witness ==
    /\ lock["smu1"] = "mqtt" /\ lock["psu1"] = "loop"
    /\ harmed /\ hpc = "call" /\ pc = "gsv"

\* The flag and the interval agree
C28_FlagAndInterval ==
    /\ changed_interval <=> interval = OverrideInterval
    /\ ~changed_interval => interval = native_interval
    /\ changed_interval => last_writer # "init"
\* and no step changes one without the other
C28_TogetherStep == (changed_interval' # changed_interval) <=> (interval' # interval)
\* C28: from the moment the bus callback is connected, changed_interval is true
\* exactly when interval is the override value 1 that handle_mqtt set, and
\* interval is the nominal interval whenever changed_interval is false; no
\* interleaving of handle_mqtt with the revert of the polling loop leaves the
\* flag cleared with the interval still 1, or the flag set with the nominal
\* interval (the nominal interval being other than 1).
C28_OverrideConsistent == []C28_FlagAndInterval /\ [][C28_TogetherStep]_vars
\* C28 witness: an override armed by a message after the start has been
\* reverted, and the loop waits for a deadline set with the override interval
C28_Witness ==
    /\ ~changed_interval /\ interval = native_interval /\ change_time > 0
    /\ pc = "wait" /\ last_writer = "loop" /\ last_step = OverrideInterval

\* A thread waits for an instrument lock that another thread holds
C29_LoopWaits == pc \in {"read", "gsv"} /\ pk = 0 /\ ~LockFree(instruments[idx])
C29_HandlerWaits == hpc = "call" /\ hk = 0 /\ ~LockFree(hcall.inst)
\* The two threads never wait for each other
C29_NoCircularWait == ~(C29_LoopWaits /\ C29_HandlerWaits)
\* C29: under every interleaving of the polling loop with the invocations of
\* handle_mqtt, no thread is blocked on a lock for ever: the two threads never
\* wait for each other, every invocation of handle_mqtt (and the driver
\* operation in it) returns, and every poll cycle comes to its end unless a
\* wire call of the loop did not return but raised.
C29_NoDeadlock ==
    /\ []C29_NoCircularWait
    /\ (hpc # "idle") ~> (hpc = "idle")
    /\ (pc \in {"read", "gsv"}) ~> (pc = "advance" \/ poll_error # "none")
\* C29 witness: handle_mqtt waits for the lock of the instrument the polling
\* loop is reading
C29_Witness ==
    /\ C29_HandlerWaits /\ lock[hcall.inst] = "loop" /\ pc = "read" /\ pk >= 1
    /\ hcall.op = "configure"

\* A configure payload that is handed to configure as its override and is not
\* an object, or is an object without a 'config' entry
C31_NotAnObject(p) == p.t \in {"float", "str", "list", "null"}
C31_NoConfigEntry(p) == p.t = "obj" /\ p.v < 2
\* The step raised in the call itself: lock, wire, device and driver are as
\* they were, and nothing has been written
C31_RaisedUntouched ==
    /\ hpc' = "ret" /\ hres' = "raised" /\ hinv' = "configure" /\ hsent' = <<>>
    /\ UNCHANGED <<lock, wire, dev, drv>>
\* C31 as stated: a configure call whose override payload is not an object, or
\* is an object without a 'config' entry, raises before the instrument lock is
\* taken and before any wire write, so that output, device and source_limit
\* stay as they were.
C31_UnusableRaisesStep ==
    \A m \in ConfigureMsgs :
        (Receive(m) /\ (C31_NotAnObject(m.payload) \/ C31_NoConfigEntry(m.payload))) =>
            C31_RaisedUntouched
C31_UnusableRaises == [][C31_UnusableRaisesStep]_vars
\* C31 amended: a configure call whose override payload is not null and is not
\* an object, or is an object without a 'config' entry, raises before the
\* instrument lock is taken and before any wire write: lock, wire, device
\* (output, reset) and the driver's source_limit are unchanged by the call, and
\* while the handler holds the raised call it has written nothing.
C31_NonNullUnusableStep ==
    \A m \in ConfigureMsgs :
        (/\ Receive(m)
         /\ m.payload.t # "null"
         /\ C31_NotAnObject(m.payload) \/ C31_NoConfigEntry(m.payload)) =>
            C31_RaisedUntouched
C31_RaisedState ==
    (/\ hpc = "ret" /\ hres = "raised" /\ hinv = "configure"
     /\ hcall.p.t # "null"
     /\ C31_NotAnObject(hcall.p) \/ C31_NoConfigEntry(hcall.p)) =>
        /\ hsent = <<>>
        /\ lock[hcall.inst] # "mqtt"
        /\ wire[hcall.inst].by # "mqtt"
C31_NonNullUnusableRaises == []C31_RaisedState /\ [][C31_NonNullUnusableStep]_vars
\* C31 witness: configure with an object that has no 'config' entry has raised
\* on the source meter after an earlier override made it source current; the
\* meter still sources current and the driver still has that override's
\* source_limit, nothing was written and the lock is free
C31_Witness ==
    /\ hpc = "ret" /\ hres = "raised" /\ hcall = Call("configure", "smu1", "", Obj(1))
    /\ hsent = <<>> /\ lock["smu1"] = "free" /\ wire["smu1"] = NoWire
    /\ dev["smu1"].func = "CURR"
    /\ drv["smu1"].source_limit = NoLimit
    /\ NoLimit # NormLimit(Config("smu1", 0))

\* The interval that was in force when the deadline in next_time was set: the
\* one the loop added, or the override interval a control message set together
\* with the deadline; at the start of the loop the deadline is the current time
C32_IntervalInForce ==
    CASE last_writer = "loop" -> last_step
      [] last_writer = "mqtt" -> OverrideInterval
      [] OTHER -> 0
\* The steps that write next_time: the end of a cycle moves the deadline to at
\* most one interval (the one in force before the step) after the current
\* time; an accepted control message moves it to the current time
C32_WriteStep ==
    /\ (pc = "advance" /\ pc' = "wait") =>
          next_time' <= now + interval /\ next_time' = next_time + interval
    /\ (hpc = "idle" /\ hpc' # "idle" /\ next_time' # next_time) => next_time' = now
    /\ next_time' # next_time =>
          \/ pc = "advance" /\ pc' = "wait"
          \/ hpc = "idle" /\ hpc' # "idle"
\* In the wait step the deadline is at most one interval after the current
\* time, and at most one interval after the moment the wait began; once that
\* interval has passed the wait can end
C32_WaitState ==
    pc = "wait" =>
        /\ next_time <= now + C32_IntervalInForce
        /\ last_writer = "loop" =>
              /\ next_time <= adv_time + last_step
              /\ now >= adv_time + last_step => now >= next_time
        /\ last_writer = "mqtt" => now >= next_time
\* C32: whenever the scheduler is in its wait step, next_time is at most now
\* plus the interval that was in force when the deadline was set: neither the
\* advance after a cycle nor a control message arriving during a cycle or
\* during the wait moves the deadline more than one interval into the future,
\* so the wait between two cycles is never longer than one interval.
C32_DeadlineWithinInterval == []C32_WaitState /\ [][C32_WriteStep]_vars
\* C32 witness: a control message arrived at t = 2 during the first cycle and
\* moved the deadline from 0 to 2; the cycle ended at t = 2 and the scheduler
\* waits for the deadline 3, exactly one override interval ahead
C32_Witness ==
    /\ pc = "wait" /\ last_writer = "loop" /\ last_step = OverrideInterval
    /\ change_time = 2 /\ prev_deadline = 2 /\ adv_time = 2 /\ now = 2
    /\ next_time = now + last_step /\ ~WaitOver

====
